---- MODULE Spec2Model ----
(***************************************************************************)
(* The grid editor ImageGridTool (src/unnamed/part_000, lines 697-1300):   *)
(* its React state, the derived grid geometry, the memoised field          *)
(* generator, the mask handlers, the three exports and the preview; of    *)
(* src/src/components/image-grid-tool.tsx, the preview's transition.       *)
(*                                                                         *)
(* Numbers.  The sliders move in fixed steps, so every configured value is *)
(* an integer count of its step: opacities in 1/20 (step 0.05), durations  *)
(* in 1/10 (step 0.1).  A draw of rng is kept to 1/RngScale.  Generated    *)
(* values are exact fractions num/den; NaN is kept apart from the numbers. *)
(* Arithmetic is exact: the binary rounding of the doubles is not          *)
(* modelled.                                                               *)
(***************************************************************************)
EXTENDS Integers, Sequences, FiniteSets, Bags, TLC

VARIABLES
  image,          \* useState<string | null>: the displayed image's URL
  dimensions,     \* useState({width, height})
  gridSize,       \* useState([10]): gridSize[0], the column count
  opacityRange,   \* useState([0.2, 0.9]), in 1/20
  opacitySteps,   \* useState(3)
  durationRange,  \* useState([3.1, 10]), in 1/10
  maskedIndices,  \* useState<Set<number>>
  isMaskingMode,  \* useState(false)
  isAnimated,     \* useState(false)
  seed,           \* useState(0)
  gridCells,      \* the value useMemo holds
  cellsRef,       \* which array that value is: a recomputation returns a new one
  style,          \* showDots, gridColor, dotsColor, dotsSize, showStroke, strokeColor,
                  \* strokeWidth, strokeOpacityMultiplier, blendMode: one useState each
  loads,          \* Image objects whose onload has not fired yet
  uploads,        \* object URLs created so far
  pkg,            \* the handleDownloadPackage calls in flight: a bag, one element per call
  out             \* what the last step showed, wrote or downloaded

vars == <<image, dimensions, gridSize, opacityRange, opacitySteps, durationRange,
          maskedIndices, isMaskingMode, isAnimated, seed, gridCells, cellsRef,
          style, loads, uploads, pkg, out>>

editor == <<image, dimensions, gridSize, opacityRange, opacitySteps, durationRange,
            maskedIndices, isMaskingMode, isAnimated, seed, gridCells, cellsRef, style>>

-----------------------------------------------------------------------------
(* Bounds of the model *)

\* Regenerate presses followed.
MaxSeed == 1
\* Files the user selects in one session.
MaxUploads == 1
\* Masked cells the user accumulates by clicking.
MaxMask == 1
\* handleDownloadPackage calls in flight together.
MaxInFlight == 2
\* Largest level count the pure-function specification draws.
MaxLevels == 3
\* Style settings that are away from their initial values at one time.
MaxRestyled == 2

(* Program constants *)

\* Slider min={5} of the density slider.
MinCols == 5
\* Slider max={100} of the density slider.
MaxCols == 100
\* useState([10])
InitCols == 10
\* useState(3)
InitSteps == 3
\* Math.sin(seed + index) * 10000: the draws are kept to four decimals.
RngScale == 10000
\* rng(i + 10000), rng(i + 20000)
DurationOffset == 10000
DelayOffset == 20000
\* delay = r3 * 2
DelayMax == 2
\* Slider step={0.05}: opacities are counted in 1/20.
OpacityUnit == 20
\* Slider step={0.1}: durations are counted in 1/10.
DurationUnit == 10

-----------------------------------------------------------------------------
(* rng: x = Math.sin(seed + index) * 10000; x - Math.floor(x), tabulated     *)
(* for the arguments 0, 1, 2, ... as floor(value * RngScale).  Where the     *)
(* value rounded down would fall on the other side of a quantisation step    *)
(* for some level count of the levels slider (26 of the arguments), it is    *)
(* rounded up instead.                                                       *)

RngTable ==
  <<
     0, 7098, 9742, 2000, 9750, 7572, 8450, 8659, 5824, 1848, 7888, 979, 2708, 6703, 735, 8784, 9668, 250, 1275, 7720,
     4525, 5563, 4869, 7959, 2163, 4824, 5845, 7592, 578, 6611, 6837, 6235, 2668, 1186, 8268, 1733, 2114, 6186, 6857, 9538,
     1316, 7733, 7845, 2525, 192, 352, 8834, 7312, 4533, 4734, 2514, 2917, 2759, 2515, 1095, 4482, 4899, 6475, 7264, 3800,
     8937, 8222, 1930, 5570, 2603, 2867, 4884, 8002, 7231, 1518, 9068, 5465, 2336, 2804, 5373, 1836, 763, 2015, 7845, 8733,
     1134, 1200, 2878, 6446, 9032, 2438, 4155, 8216, 9830, 6940, 9666, 8751, 3393, 1785, 4801, 6171, 8774, 773, 1812, 9316,
     3435, 2578, 2679, 8863, 7759, 6471, 5749, 8174, 1850, 4260, 5732, 4855, 439, 1809, 8038, 3533, 6139, 205, 4783, 9589,
     1118, 1522, 1315, 9650, 1301, 5954, 9082, 3006, 3771, 2660, 9404, 9661, 8358, 6575, 2481, 6868, 6679, 8554, 4774, 8013,
     3965, 7136, 499, 5463, 7840, 4516, 6917, 4402, 6660, 5135, 2357, 4988, 2052, 58, 7966, 8801, 1538, 5145, 2409, 1973,
     2525, 9221, 4964, 8982, 3277, 9727, 9156, 4981, 2671, 13, 4945, 9086, 5914, 8946, 3802, 6540, 5223, 8978, 7533, 2216,
     4736, 4859, 1893, 8040, 8438, 2118, 7606, 2897, 7633, 1795, 9927, 854, 6164, 4342, 1367, 5466, 3005, 584, 2140, 116,
     270, 974, 1840, 970, 2035, 249, 5809, 9497, 6793, 6664, 1851, 5214, 5290, 2938, 9945, 4562, 5848, 1839, 7547, 8525,
     9871, 3879, 5083, 5348, 7900, 512, 5618, 5859, 2306, 6236, 3579, 1581, 2327, 3928, 1669, 8664, 6791, 4213, 2388, 9068,
     4515, 6171, 8809, 9065, 6370, 8743, 5999, 718, 5211, 3680, 7198, 613, 1221, 2372, 9889, 836, 9196, 4282, 3562, 9318,
     3970, 1879, 829, 5281, 1748, 1017, 5402, 6817, 6498, 5311, 5405, 1081, 5693, 15, 8859, 1467, 1433, 431, 2109, 8278,
     9057, 4856, 5023, 5251, 6396, 7159, 8524, 5905, 9562, 7897, 4563, 1422, 2598, 9900, 9001, 1808, 6125, 6905, 3762, 2327,
     4416, 3595, 5283, 3250, 680, 9605, 3828, 6463, 303, 137, 8768, 7178, 852, 9050, 709, 3326, 8734, 3978, 3879, 2500,
     4457, 826, 1225, 153, 3478, 6372, 8866, 3480, 8473, 3894, 1837, 885, 9565, 7883, 7214, 3294, 4740, 9284, 1080, 2555,
     1074, 323, 3968, 164, 966, 418, 4595, 6263, 6387, 5555, 6717, 1720, 4985, 997, 5469, 6985, 1272, 1511, 983, 2219,
     1572, 8655, 9067, 4613, 898, 4640, 9007, 4748, 560, 8852, 3506, 3218, 578, 6734, 9298, 4244, 6087, 8145, 3646, 6557,
     2187, 2204, 3287, 2322, 5643, 2697, 1007, 4817, 8854, 4289, 991, 8271, 1506, 263, 9657, 694, 5243, 3360, 5800, 6793,
     8064, 2468, 5679, 7395, 4359, 4576, 4845, 7732, 253, 1404, 5450, 2528, 811, 2375, 8523, 3933, 2554, 6039, 1458, 6214,
     8827, 8128, 3558, 1441, 5486, 9022, 5466, 579, 9414, 4108, 5384, 6751, 8077, 4740, 3967, 9198, 6458, 4259, 2801, 3017,
     529, 7001, 66, 7157, 1521, 1684, 4246, 8495, 7257, 2276, 1627, 1769, 2014, 656, 563, 3964, 4732, 7014, 3494, 5094,
     4254, 2180, 8863, 7017, 7478, 7279, 6659, 8185, 5190, 93, 7448, 6789, 1976, 4646, 7611, 6427, 8624, 1297, 3025, 8978,
     1671, 8071, 6292, 8317, 296, 1702, 8577, 8631, 1932, 8916, 6134, 5167, 438, 2290, 9822, 6630, 5672, 1939, 4362, 9533,
     2819, 2829, 7988, 6176, 5539, 5535, 2059, 6865, 1724, 5042, 2666, 7040, 1849, 5765, 9059, 415, 2924, 4412, 8199, 4299,
     472, 3482, 7670, 7555, 7579, 2226, 264, 6212, 3999, 7254, 1655, 1769, 9576, 3911, 790, 7067, 4082, 5159, 9832, 2210,
     709, 4800, 6875, 9715, 5565, 9872, 1568, 6653, 6279, 6487, 1592, 5962, 1241, 864, 1305, 8261, 6016, 6376, 112, 916,
     1858, 3515, 7666, 816, 3589, 812, 7411, 4882, 4623, 7246, 4841, 6315, 1095, 3459, 9627, 7126, 4722, 6408, 7661, 3860,
     8380, 1424, 2051, 8394, 6608, 8794, 8139, 4995, 3459, 8184, 3790, 6007, 6356, 5428, 8003, 4502, 5696, 4190, 2309, 2114,
     8244, 2260, 413, 7750, 8388, 2075, 6531, 6421, 7933, 2799, 1762, 923, 3247, 3648, 137, 8230, 1043, 127, 2830, 5253,
     7632, 6135, 6194, 5218, 3531, 1627, 6868, 5058, 2847, 3481, 8199, 5865, 6982, 7797, 4206, 3720, 5661, 2757, 1832, 2671,
     4750, 4470, 5421, 8876, 9088, 3741, 9758, 373, 2130, 220, 5320, 1550, 3453, 8949, 244, 5650, 3904, 1948, 6258, 1556,
     3302, 7077, 1606, 6705, 8559, 2814, 5835, 820, 9743, 6314, 4663, 2069, 8900, 8427, 7113, 2818, 6615, 8734, 2361, 9279,
     4092, 8878, 3617, 646, 8055, 1150, 393, 8827, 9102, 1134, 7935, 8239, 2705, 8090, 4558, 6636, 88, 8767, 2379, 9047,
     7052, 2658, 3298, 5885, 7338, 4137, 6308, 2030, 7748, 6159, 6028, 355, 7233, 6032, 5809, 9282, 4238, 3204, 4947, 6355,
     2830, 1006, 7795, 2174, 1559, 4203, 3894, 8592, 5256, 3681, 6985, 2261, 8840, 4747, 4721, 800, 9745, 5831, 4775, 2101,
     7767, 1750, 7697, 1105, 3152, 6284, 1343, 801, 2615, 1146, 7295, 1780, 5433, 5872, 6220, 3519, 6229, 1329, 674, 6547,
     8332, 7391, 1776, 6978, 6095, 4616, 43, 1900, 7983, 9151, 3195, 6667, 5990, 1513, 4966, 9476, 8857, 4880, 9885, 7507,
     2886, 3602, 6504, 8366, 6409, 7393, 5733, 1828, 2673, 3331, 469, 5883, 8603, 7950, 4932, 6503, 1842, 1651, 5855, 16,
     6964, 2756, 9616, 3699, 646, 573, 7686, 5196, 6873, 9556, 8634, 7956, 3291, 4147, 2051, 5019, 9888, 4099, 4114, 781,
     9709, 1825, 3188, 7809, 1773, 1568, 281, 5840, 5923, 5187, 6026, 1228, 6089, 4297, 742, 703, 4773, 4407, 9593, 6745,
     7190, 3183, 4379, 9558, 9685, 863, 2986, 569, 644, 2341, 2773, 1519, 5621, 5810, 3092, 9844, 7423, 9620, 987, 3786,
     6572, 892, 4216, 6492, 1948, 5864, 4381, 1155, 6060, 9908, 6643, 4930, 6209, 4618, 8123, 9327, 3878, 9677, 2218, 4827,
     600, 383, 1660, 3053, 1688, 148, 1237, 1868, 4642, 6202, 1128, 6975, 7786, 2294, 7141, 6462, 2792, 3351, 2936, 7073,
     327, 6008, 527, 3098, 5658, 1348, 5070, 6933, 6131, 7273, 3207, 6992, 5405, 8805, 6131, 6033, 7158, 5170, 1574, 6157,
     6522, 9962, 4944, 7815, 5562, 5754, 1520, 5969, 5532, 2219, 5876, 6675, 2099, 9328, 4378, 2726, 1533, 36, 905, 545,
     8830, 2140, 7681, 9153, 1962, 3755, 1193, 3073, 6754, 4925, 6479, 2436, 2808, 6316, 9400, 4766, 9478, 8454, 9286, 9542,
     8651, 6322, 5936, 1760, 4511, 5637, 8956, 9222, 9140, 405, 9568, 6034, 8915, 9058, 7743, 3718, 2326, 792, 3064, 7625,
     1340, 5181, 4189, 4289, 4177, 2133, 6835, 5602, 2295, 3308, 3500, 3821, 9462, 1083, 8259, 3340, 2535, 3251, 2684, 3924,
     7954, 9059, 6654, 5839, 557, 7550, 773, 6186, 8337, 7184, 4282, 8595, 819, 4232, 6205, 3788, 2016, 323, 6286, 2742,
     5601, 1150, 7506, 1462, 6661, 7347, 7126, 8220, 9265, 3272, 9905, 5942, 1305, 5123, 7963, 5443, 3376, 9283, 234, 9994,
     5861, 8328, 2778, 3912, 516, 834, 8779, 5304, 2739, 8328, 5653, 9498, 8497, 5077, 939, 5477, 87, 7140, 1841, 9767,
     5007, 5661, 953, 3505, 2212, 956, 8015, 4021, 6952, 6160, 9861, 2866, 4522, 5491, 6391, 9698, 8980, 9660, 5090, 8028,
     8086, 8991, 2237, 2752, 3337, 1784, 9389, 4173, 6858, 3999, 6211, 8304, 5049, 8126, 153, 1767, 5492, 9787, 8934, 9405,
     6439, 9042, 6891, 4505, 8050, 4715, 1195, 5771, 2453, 765, 4897, 5073, 1661, 1254, 2546, 8758, 371, 8715, 5789, 6404,
     5316, 7384, 5386, 1657, 3172, 9674, 4110, 1978, 5514, 3852, 2218, 4155, 6679, 8787, 9497, 5204, 7329, 6410, 3853, 3072,
     9827, 1781, 8264, 9911, 9369, 9863, 1775, 8533, 1297, 7117, 6463, 9314, 6630, 1132, 8446, 4386, 241, 2271, 5343, 6431,
     7225, 2857, 7592, 5596, 322, 8765, 9354, 6402, 8211, 803, 5707, 8041, 2938, 4753, 957, 3302, 9689, 5436, 9190, 6358,
     9413, 2647, 6342, 3506, 2013, 1518, 8918, 6523, 8379, 9537, 6922, 2380, 4892, 2495, 6211, 3916, 5055, 2610, 8949, 1713,
     2139, 8859, 8423, 6420, 5494, 7823, 1289, 6816, 4015, 4281, 7490, 2323, 2770, 1849, 6887, 1319, 6155, 4701, 5290, 1059,
     5603, 4196, 5839, 2114, 1124, 6297, 7215, 3167, 2562, 9453, 872, 8760, 2973, 8007, 2765, 6572, 8968, 466, 9893, 9369,
     8046, 5755, 6686, 6802, 6803, 675, 1967, 9266, 5579, 3507, 6364, 9614, 6422, 4411, 287, 9472, 6414, 2290, 7524, 2195,
     5710, 3897, 4892, 6873, 4148, 5323, 9999, 2811, 2277, 6820, 6073, 2166, 1992, 6034, 4095, 6141, 2663, 5228, 9745, 1629,
     3649, 644, 6965, 5474, 5934, 1120, 1926, 9392, 3682, 7382, 6165, 5509, 7874, 9795, 2299, 3543, 7579, 9641, 8233, 7891,
     8699, 1605, 7496, 1062, 2145, 2538, 9431, 191, 5057, 9084, 2221, 8782, 2677, 3675, 2526, 622, 822, 1705, 8546, 8177,
     6961, 1162, 8308, 8071, 9050, 2633, 6887, 2040, 9052, 9259, 4931, 9211, 2219, 8652, 1217, 5692, 2768, 6563, 8572, 8164,
     7533, 463, 1811, 7611, 9176, 9277, 6695, 8318, 6001, 809, 8568, 459, 8074, 5754, 3061, 350, 2121, 6317, 6190, 8664,
     9577, 6902, 4172, 4375, 5387, 5783, 8904, 6412, 5276, 6031, 9120, 8889, 7746, 722, 5954, 5982, 1863, 4167, 7331, 361,
     642, 3677, 4658, 3042, 6341, 7370, 1499, 8654, 7391, 4793, 5021, 4368, 7814, 8885, 1955, 7126, 2950, 5615, 3073, 7832,
     396, 4200, 6686, 6430, 8784, 2056, 913, 4238, 7466, 9073, 1993, 7165, 2421, 430, 3127, 5847, 2367, 6062, 5240, 9416,
     2057, 3612, 4724, 63, 1869, 993, 27, 7749, 4069, 862, 7771, 1033, 2883, 7645, 2383, 9623, 8121, 6933, 9237, 9642,
     9445, 8958, 2811, 1535, 7279, 6776, 3644, 4069, 8971, 7592, 8698, 7265, 2726, 1025, 8036, 836, 572, 5416, 8373, 2753,
     3273, 5828, 3022, 9219, 2248, 6686, 3623, 5346, 6815, 8359, 4150, 1865, 793, 1442, 1095, 4750, 5188, 7325, 8701, 4502,
     7454, 5111, 51, 7457, 7328, 6085, 2831, 1759, 2539, 3496, 6703, 1738, 673, 3927, 7445, 2950, 702, 1641, 7502, 7930,
     9804, 566, 4328, 9454, 831, 568, 9529, 5086, 1880, 3091, 4262, 6761, 5840, 5614, 6491, 4975, 6598, 9618, 1934, 9797,
     3833, 3333, 3903, 9430, 6342, 3566, 4027, 24, 6377, 7302, 3686, 8796, 5938, 3810, 5508, 9604, 4423, 1475, 7064, 785,
     935, 934, 863, 8944, 183, 5452, 464, 5807, 5415, 831, 4976, 6706, 399, 2542, 6888, 4857, 9293, 2584, 6514, 6669,
     1580, 5901, 744, 6157, 8345, 5173, 7928, 4838, 5314, 2438, 788, 6796, 6380, 2926, 5931, 2928, 7225, 7165, 9710, 7842,
     761, 639, 7455, 255, 2969, 8927, 8599, 4374, 1765, 9641, 6255, 1679, 7406, 7160, 9573, 3757, 7251, 4758, 1751, 189,
     7520, 9090, 3680, 6547, 5843, 807, 7978, 3804, 8240, 2350, 726, 1162, 4891, 1853, 9950, 7230, 7134, 3282, 121, 4430,
     6145, 3009, 8970, 6639, 226, 1818, 8508, 844, 6355, 5650, 1193, 4711, 4598, 2693, 1179, 6946, 7191, 99, 3519, 5912,
     1881, 9471, 9115, 3307, 856, 4941, 7448, 4213, 9503, 4854, 4082, 2700, 3035, 4378, 2254, 8846, 5596, 1933, 1120, 783,
     8442, 8700, 6808, 3568, 2430, 789, 2956, 6189, 3361, 5403, 104, 2031, 652, 1146, 9133, 439, 8717, 4161, 4717, 1492,
     5165, 189, 7002, 2835, 3738, 6418, 9250, 4767, 9629, 9939, 7274, 9280, 2683, 8564, 9494, 2799, 2237, 773, 2481, 8338,
     7944, 2786, 3901, 6914, 121, 9521, 6546, 599, 5806, 9951, 1344, 6696, 710, 1779, 2114, 3293, 5421, 5467, 2912, 2040,
     4150, 3595, 6355, 5214, 1730, 7970, 205, 4183, 2268, 5347, 2433, 5122, 4159, 3874, 2614, 1367, 5518, 2462, 4650, 4044,
     5354, 1057, 1384, 93, 2448, 4513, 7887, 5087, 1994, 6093, 9885, 5771, 5991, 9940, 3818, 8373, 2818, 1323, 4399, 4102,
     233, 8673, 3026, 9990, 913, 536, 5580, 8016, 7296, 3978, 3298, 9603, 6921, 6013, 8953, 4927, 4758, 6530, 2920, 100,
     8150, 7077, 9977, 6369, 1884, 4757, 8952, 4572, 9619, 7204, 2666, 4765, 3895, 8771, 7377, 9325, 2692, 202, 70, 1441,
     235, 4405, 6811, 3930, 4662, 836, 9976, 4758, 9015, 4521, 1887, 9812, 2276, 8747, 6443, 8737, 7148, 8182, 9106, 4737,
     1730, 7680, 7644, 5113, 733, 2940, 5897, 9698, 1325, 1403, 5182, 2239, 9962, 940, 7821, 5416, 5666, 7917, 9570, 1491,
     5610, 182, 9800, 6133, 3508, 1387, 9193, 2242, 8290, 2036, 4270, 6812, 8452, 5083, 4770, 528, 7092, 2808, 9793, 1218,
     2398, 1626, 3195, 5107, 5370, 7088, 6236, 6047, 3428, 586, 2823, 3946, 3170, 535, 82, 3566, 3977, 5790, 2927, 6511,
     7159, 3902, 7013, 2490, 4436, 9325, 2718, 2686, 3189, 2624, 1378, 8504, 707, 2365, 6415, 6610, 9212, 1749, 3732, 95,
     2172, 6689, 3492, 6673, 2126, 6129, 1532, 6590, 5966, 4510, 8144, 2552, 6407, 550, 1166, 9016, 6906, 1693, 3668, 9028,
     2162, 1818, 7552, 7522, 8235, 7102, 251, 2537, 8856, 7076, 8539, 1352, 9829, 8464, 3190, 2179, 1505, 1921, 6926, 4608,
     1273, 4039, 8276, 8460, 7951, 917, 7672, 4720, 5786, 1483, 4438, 9742, 3796, 9693, 2817, 4282, 9851, 3372, 1326, 4805,
     2020, 4427, 5968, 9107, 5010, 9073, 1260, 7926, 8768, 7903, 9828, 1833, 8543, 2883, 6991, 2385, 3981, 9247, 4443, 2725,
     288, 816, 6318, 1253, 4602, 1470, 7914, 5574, 4867, 6012, 2457, 4973, 2835, 7487, 2240, 5115, 9130, 2376, 9702, 903,
     3950, 9594, 3697, 1197, 7991, 8291, 7019, 4287, 3008, 7599, 3608, 7202, 8636, 6696, 6288, 575, 3167, 6191, 7805, 6054,
     6198, 5304, 4942, 9600, 6665, 9168, 5114, 6989, 9159, 3555, 2159, 1402, 3368, 2493, 7963, 7036, 2732, 3953, 5275, 3264,
     2230, 2288, 8245, 2087, 8903, 9757, 8669, 8068, 4298, 2846, 6867, 5061, 6640, 7425, 4146, 4834, 7730, 3879, 169, 8947,
     2387, 6448, 727, 2631, 7035, 6960, 4485, 2261, 249, 7107, 3835, 2254, 4892, 9800, 531, 5915, 3904, 877, 4294, 506,
     4937, 700, 3886, 4739, 3350, 9150, 7891, 7513, 4918, 4408, 6622, 5285, 416, 7656, 5569, 1921, 6384, 8575, 2421, 308,
     5950, 9857, 2011, 7124, 5856, 3102, 5506, 2401, 7045, 4530, 2857, 161, 666, 4770, 3010, 7476, 1739, 9709, 2553, 9099,
     6934, 1672, 1545, 4976, 8915, 7556, 8426, 93, 2732, 2675, 8086, 6869, 2214, 4094, 7929, 2704, 5816, 2294, 3191, 5368,
     2713, 1061, 7971, 3115, 3207, 5042, 2347, 5275, 3219, 5603, 1904, 5655, 6783, 8323, 9837, 2752, 7544, 2307, 3168, 3082,
     9629, 2780, 7755, 944, 2919, 5389, 9801, 31, 4131, 4359, 9252, 9875, 612, 2567, 8276, 9852, 1016, 9364, 2957, 172,
     9968, 6339, 9809, 5905, 6096, 4884, 332, 2750, 9418, 9853, 1712, 3556, 4113, 3401, 9689, 2693, 6804, 8638, 5194, 9485,
     521, 9874, 4841, 9490, 8481, 8508, 5672, 1453, 2330, 2528, 9139, 5249, 54, 957, 6731, 4634, 7217, 8522, 7905, 6166,
     1560, 766, 2064, 7528, 2336, 9376, 5509, 4040, 6995, 38, 9033, 8711, 4514, 4714, 634, 2115, 8167, 5949, 8640, 3823,
     7663, 5767, 8687, 9810, 9242, 7639, 8566, 7110, 8205, 6383, 5843, 640, 5637, 3591, 9624, 202, 6155, 7207, 1237, 4916,
     2763, 228, 6419, 5524, 4091, 8852, 5601, 4600, 2384, 997, 386, 284, 5867, 6505, 3597, 501, 8434, 56, 9641, 1090,
     5005, 2701, 8544, 9360, 9914, 9992, 70, 3175, 3360, 5777, 4879, 6348, 8701, 5892, 7814, 8526, 3321, 9071, 1313, 4456,
     1910, 2975, 3151, 1266, 7459, 7366, 3264, 7648, 8860, 4175, 3913, 1206, 9574, 800, 4545, 5152, 3165, 4258, 3544, 7628,
     1125, 6315, 9255, 610, 4242, 3112, 9198, 9630, 4111, 1587, 9083, 9026, 2534, 4474, 4322, 7603, 9858, 6517, 1136, 5143,
     5864, 9459, 4252, 7571, 6796, 8137, 2861, 4229, 1505, 9606, 7886, 2266, 6131, 7287, 7335, 7157, 3363, 8390, 8101, 9162,
     9333, 3261, 8389, 9603, 2547, 3937, 9998, 794, 5486, 6640, 406, 4964, 808, 820, 5461, 6812, 6434, 3924, 7436, 1266,
     1558, 7740, 5367, 533, 3755, 5241, 8478, 9101, 294, 2579, 762, 4345, 5089, 6613, 9733, 9119, 6173, 8742, 6195, 2253,
     3209, 3379, 1178, 2838, 4813, 3466, 7640, 5944, 2667, 3368, 2387, 1752, 8340, 2745, 1983, 5702, 557, 7946, 8929, 5978,
     4734, 4333, 4766, 7720, 3671, 9035, 69, 4747, 7486, 6897, 4017, 8595, 1890, 6196, 7255, 2153, 8394, 8043, 8251, 7952,
     9265, 9094, 814, 6287, 8567, 5387, 3910, 6704, 37, 4817, 802, 6173, 1463, 5063, 6934, 3584, 2397, 890, 3755, 2192,
     3909, 3215, 9204, 5969, 7119, 5912, 6857, 7343, 6059, 9876, 4812, 7848, 7554, 4903, 888, 5595, 1073, 8892, 2750, 8190,
     1589, 3544, 2890, 8521, 5695, 8898, 1502, 9040, 8889, 4040, 6439, 1288, 5433, 7247, 7378, 9815, 8925, 9484, 4149, 6381,
     7247, 538, 5553, 4789, 1416, 6866, 5995, 6231, 3281, 8883, 4259, 505, 8573, 9733, 9171, 9905, 4461, 9730, 9096, 9638,
     7334, 583, 7660, 2989, 4837, 2758, 3100, 592, 5758, 8709, 8564, 286, 3627, 8972, 8920, 7122, 1423, 682, 6862, 6402,
     5048, 7095, 4537, 222, 2471, 1158, 7221, 3856, 3626, 9129, 9002, 6208, 2921, 3478, 7519, 7569, 1057, 8074, 2728, 1000,
     8712, 1843, 8639, 256, 171, 1192, 2409, 7083, 8290, 5318, 8332, 3939, 9759, 9081, 2296, 9790, 2231, 9823, 1513, 4741,
     8422, 5034, 8748, 5473, 9840, 8367, 8600, 5179, 7644, 2219, 8610, 9762, 1088, 227, 7916, 5348, 5747, 9937, 7189, 8890,
     3343, 4362, 5071, 1223, 817, 1702, 9506, 6975, 9085, 654, 7422, 999, 2092, 851, 8041, 8343, 8009, 570, 2983, 7307,
     4150, 6244, 4392, 4680, 6838, 210, 2524, 6570, 3320, 3776, 6834, 1313, 2335, 3195, 9583, 2886, 4346, 373, 2422, 3094,
     1475, 8507, 3819, 4814, 5255, 8061, 5796, 675, 1289, 9763, 1674, 9317, 3579, 8912, 3136, 5262, 6376, 8975, 1679, 3596,
     829, 3728, 907, 2585, 8831, 7889, 7735, 7479, 7073, 6103, 7675, 9241, 5514, 3803, 9732, 8675, 6107, 3562, 11, 3611,
     3947, 9770, 2195, 8893, 9833, 9447, 7964, 5683, 6608, 8630, 4503, 9466, 645, 6472, 5110, 6799, 3166, 5919, 9989, 395,
     1266, 9302, 8705, 9501, 8546, 9110, 6335, 5360, 5722, 4424, 1734, 3678, 9521, 2599, 3683, 3040, 6458, 8933, 7783, 7306,
     8517, 2799, 9774, 2330, 430, 8612, 6903, 2191, 553, 3023, 175, 1827, 7207, 5526, 802, 7714, 9405, 2274, 9773, 8933,
     7357, 1640, 8428, 6916, 6877, 1439, 8576, 5866, 1497, 7269, 9530, 5365, 4270, 5521, 6588, 3822, 4571, 9574, 24, 7527,
     6200, 9658, 1469, 7240, 9117, 390, 8764, 9440, 4338, 7085, 6206, 2437, 3379, 9509, 1008, 3570, 6848, 8205, 4309, 5549,
     8093, 7606, 5612, 5226, 5674, 6048, 8904, 5341, 3313, 4981, 755, 2511, 26, 8757, 745, 2318, 3919, 858, 2506, 8456,
     2602, 6894, 6175, 2269, 4796, 6472, 1269, 8496, 7451, 5822, 6879, 5346, 6208, 5364, 9757, 9077, 8062, 9188, 1016, 1229,
     5318, 6122, 4646, 3110, 7236, 2897, 2564, 5181, 7640, 9124, 1874, 6180, 669, 9522, 4703, 9265, 4484, 4125, 224, 5933,
     4115, 125, 9704, 8126, 3989, 4415, 1605, 6838, 2312, 9874, 7655, 1088, 3059, 8585, 4030, 461, 6574, 3617, 7201, 1563,
     4363, 2352, 754, 5112, 2395, 8728, 1443, 544, 7364, 8573, 560, 8296, 2784, 862, 7803, 9941, 9031, 4646, 9889, 5966,
     5230, 3923, 8202, 5914, 4304, 3018, 8409, 3381, 9098, 1986, 5786, 813, 8825, 369, 1097, 5019, 5477, 8174, 136, 5203,
     5970, 2001, 8174, 9344, 2050, 9301, 777, 5518, 7848, 5475, 4338, 8010, 9009, 5052, 9517, 4066, 641, 1265, 7157, 7127,
     8475, 9932, 5779, 2461, 2630, 8699, 4904, 1958, 3930, 9241, 8858, 4771, 8288, 9443, 8181, 3777, 4420, 8462, 2056, 279,
     4232, 4088, 5126, 9997, 4926, 663, 2307, 1874, 903, 343, 1640, 2738, 1438, 5811, 2976, 5673, 2708, 2745, 9346, 1981,
     751, 346, 411, 8238, 9066, 4951, 1846, 8607, 7059, 9001, 550, 3752, 2440, 8507, 1293, 2847, 1909, 6615, 8254, 5325,
     9192, 4666, 991, 6853, 8850, 5829, 8939, 5273, 3968, 9742, 9221, 8605, 708, 5794, 3897, 7056, 2914, 9185, 7009, 3711,
     8997, 2058, 9947, 1529, 2659, 8125, 8042, 3768, 862, 9271, 7564, 4271, 8897, 5373, 5346, 975, 9278, 537, 5969, 8161,
     306, 3322, 5467, 5052, 3247, 9496, 8352, 4713, 8848, 2905, 1523, 1469, 3619, 9366, 8534, 8993, 1261, 5978, 8102, 8745,
     2021, 5044, 6098, 2308, 8417, 3389, 1208, 2191, 5917, 4635, 535, 4208, 3907, 2449, 2412, 9329, 8532, 8359, 9492, 3300,
     3892, 5062, 3146, 1266, 3814, 9372, 9278, 2566, 6699, 3471, 4585, 3821, 3743, 4828, 2839, 9027, 4401, 9655, 9853, 2497,
     2369, 1228, 4808, 8072, 8492, 2835, 9911, 1659, 1511, 7128, 3012, 3449, 82, 9919, 8377, 43, 8239, 4042, 5871, 3665,
     6359, 8501, 3177, 391, 5727, 1819, 3096, 2717, 2762, 4568, 9144, 7478, 9672, 7112, 131, 4133, 3042, 1115, 2852, 8397,
     6830, 718, 2779, 8576, 3845, 1883, 4568, 5294, 2052, 2005, 8124, 1969, 8822, 3660, 5228, 4777, 4717, 4027, 2060, 1753,
     3886, 3596, 7426, 7177, 2780, 6336, 6583, 1903, 4233, 556, 6097, 3066, 7468, 8700, 4520, 9407, 2301, 945, 5423, 5589,
     6251, 1288, 1542, 33, 1420, 2656, 6908, 6693, 5515, 8291, 7934, 659, 2418, 1997, 420, 3450, 896, 3363, 7719, 5650,
     9391, 7022, 2083, 9816, 862, 654, 6565, 9768, 8204, 2401, 9880, 7486, 8858, 1029, 2437, 2870, 8246, 1550, 4858, 7980,
     4728, 5499, 889, 8126, 2871, 4873, 8896, 4396, 8678, 5558, 1828, 6311, 7210, 807, 5456, 4407, 9299, 2259, 6493, 6324,
     8283, 6606, 336, 5537, 3680, 8973, 8946, 4701, 9177, 4754, 2782, 1353, 3045, 7232, 3230, 6780, 9052, 3002, 2411, 2681,
     5398, 2893, 9610, 2830, 7106, 1304, 6950, 1666, 2399, 1401, 4913, 1950, 9112, 9505, 7120, 6899, 8775, 9794, 7683, 6768,
     2394, 2235, 6041, 823, 1530, 3752, 2921, 3906, 7166, 9963, 3155, 6874, 8828, 5428, 5572, 1856, 7725, 1358, 6787, 9419,
     4267, 6251, 6323, 3056, 9221, 2493, 8226, 3599, 9598, 8896, 4021, 6124, 4326, 412, 9599, 3167, 3222, 4568, 2361, 7927,
     61, 5623, 5163, 7965, 1396, 1370, 8775, 7186, 1188, 5156, 5309, 220, 9436, 82, 5219, 6795, 9801, 2201, 4437, 1212,
     2673, 5308, 692, 5029, 3955, 556, 4486, 4549, 1, 105, 155, 9936, 2376, 8810, 2511, 1404, 8142, 1446, 2972, 8523,
     1506, 808, 7117, 8868, 931, 8669, 8442, 8210, 5988, 9111, 4411, 5662, 7810, 1165, 7322, 3943, 86, 9429, 5652, 4918,
     2075, 4596, 8882, 9363, 8321, 9608, 5081, 3230, 7572, 5710, 7219, 7714, 8018, 5476, 4845, 1496, 5619, 1585, 2820, 7401,
     3331, 4054, 5059, 8498, 4455, 8276, 954, 9197, 1254, 9319, 8065, 7706, 5847, 4902, 2675, 6509, 1946, 2119, 8775, 4534,
     8718, 8115, 4971, 1691, 5618, 2129, 8417, 6264, 5110, 4778, 75, 3632, 4574, 1514, 4852, 3105, 3540, 8345, 1743, 7945,
     9519, 7763, 5345, 4002, 9374, 7788, 5897, 3579, 2558, 7015, 3427, 8396, 913, 7963, 4573, 6649, 639, 8191, 3301, 9992,
     4152, 8349, 9473, 1451, 4940, 6260, 3696, 7559, 387, 4312, 2555, 1879, 3487, 1339, 5790, 5842, 4421, 7778, 7719, 1274,
     6830, 8442, 295, 8954, 4274, 7887, 472, 1080, 5750, 2209, 5533, 4256, 6298, 7054, 4087, 5947, 9797, 5000, 8507, 5223,
     26, 8425, 6031, 6386, 4981, 181, 9212, 4149, 8368, 3992, 2350, 2958, 6332, 652, 817, 6179, 3903, 9805, 2332, 9457,
     6572, 4322, 6165, 2774, 8141, 5486, 9947, 4204, 93, 2503, 8582, 8503, 1933, 6883, 4023, 1023, 6154, 8418, 2481, 1337,
     7807, 835, 405, 3605, 3659, 5053, 618, 5974, 4987, 7929, 7780, 2083, 8626, 1450, 1462, 8318, 3390, 652, 2726, 9149,
     6815, 687, 9793, 4069, 492, 973, 542, 8157, 7716, 9192, 144, 3381, 7194, 2157, 50, 6127, 7395, 1382, 1434, 4381,
     2598, 1117, 8148, 4056, 4852, 5880, 801, 1960, 1183, 7524, 6822, 9049, 4725, 1901, 4954, 4704, 5342, 8782, 1560, 4064,
     1491, 3811, 7812, 781, 2686, 4493, 8261, 9262, 5646, 7572, 1208, 7971, 5792, 9263, 332, 6184, 5802, 7398, 5240, 3800,
     1604, 5286, 7841, 4832, 6098, 5154, 621, 3599, 852, 554, 229, 447, 2236, 5288, 4411, 5909, 4750, 2398, 503, 1464,
     8155, 6145, 3177, 615, 554, 9623, 5610, 1077, 1985, 1726, 7811, 4616, 1504, 3963, 8529, 2765, 2593, 5394, 9955, 2315,
     6155, 8776, 4512, 1358, 4026, 8178, 3331, 2884, 7118, 521, 9432, 9465, 5736, 5280, 9218, 9212, 6446, 7798, 3165, 6863,
     5617, 9710, 4188, 1811, 6710, 3707, 6850, 8381, 488, 7579, 5658, 51, 5184, 2885, 8509, 9702, 7536, 6, 2880, 3086,
     8337, 7275, 8460, 1489, 8495, 6841, 8218, 8632, 4125, 9652, 7998, 9048, 6114, 7201, 4103, 1157, 9443, 490, 8295, 8395,
     3438, 4509, 2871, 2227, 7880, 4120, 5759, 5194, 659, 1644, 3115, 7768, 1193, 7165, 7504, 7723, 2764, 8465, 410, 4086,
     3219, 5566, 4642, 9480, 3233, 4585, 5292, 3426, 3077, 2147, 6699, 5438, 1361, 9305, 1948, 3840, 3539, 5168, 4153, 8182,
     1922, 6622, 7984, 8123, 2826, 4875, 3324, 2326, 2092, 5903, 4960, 1061, 9662, 141, 2512, 9174, 2559, 7865, 698, 4127,
     5205, 8957, 3562, 7328, 8029, 519, 4202, 2490, 7479, 6995, 9897, 7856, 161, 5246, 294, 1589, 5194, 6742, 5296, 7779,
     9837, 4383, 9097, 53, 3130, 4117, 8804, 8517, 4219, 8354, 4331, 7491, 8808, 5325, 1523, 8858, 3388, 9394, 5585, 2990,
     4466, 9158, 4797, 9305, 2998, 4845, 8001, 8982, 1448, 4751, 1956, 2656, 1265, 4169, 1722, 4519, 19, 6692, 9328, 6883,
     5079, 1576, 8166, 1386, 5450, 4800, 8444, 6286, 3037, 3426, 1274, 9685, 7219, 4407, 5706, 8063, 8579, 2642, 5175, 8031,
     1513, 9605, 2877, 9601, 6786, 520, 9365, 3307, 6634, 6610, 3754, 8597, 2961, 8158, 8304, 518, 4772, 5764, 216, 3160,
     2928, 7038, 4123, 1113, 472, 3426, 691, 5187, 809, 6363, 1700, 6403, 1620, 5003, 5905, 1728, 1419, 2496, 7274, 4389,
     1958, 8103, 5632, 8026, 3721, 988, 4935, 9384, 9380, 1424, 3970, 6196, 6611, 4729, 838, 5714, 2058, 643, 3657, 6613,
     8171, 1428, 4826, 3536, 9178, 6841, 4990, 4061, 826, 1919, 3016, 9710, 6345, 9005, 8365, 9930, 8868, 9307, 3208, 4735,
     6409, 2084, 8867, 6825, 9495, 1948, 2602, 8288, 9703, 3765, 2307, 2708, 2099, 1341, 8189, 8042, 3430, 9673, 9259, 9871,
     8229, 2123, 8429, 1474, 1625, 802, 5004, 5412, 9062, 6653, 2233, 5500, 5593, 6688, 5292, 5486, 2477, 2650, 7936, 6400,
     4778, 6805, 3688, 8788, 1770, 2641, 330, 5732, 1739, 4407, 5786, 8262, 9161, 8168, 5541, 9936, 4786, 9737, 1603, 8926,
     7597, 1905, 9016, 600, 973, 2520, 3041, 5633, 5284, 3520, 201, 8562, 2886, 7031, 6147, 5196, 4221, 7374, 7683, 3051,
     9620, 7213, 9904, 5350, 9357, 7967, 7845, 3957, 7078, 3635, 1512, 1482, 9238, 5703, 4876, 7393, 1803, 4436, 5188, 1422,
     7275, 6078, 3800, 8940, 9621, 1887, 96, 7428, 9790, 1769, 7922, 9617, 9293, 9208, 9870, 2768, 962, 8529, 7019, 2903,
     6160, 3627, 359, 2939, 8183, 2598, 3760, 6323, 2623, 3270, 6178, 304, 1900, 4540, 2278, 4452, 2538, 6047, 9555, 5128,
     7347, 2817, 1800, 7516, 9388, 9826, 4376, 8182, 15, 73, 2477, 9875, 4185, 9814, 3506, 3953, 3785, 7485, 3465, 7823,
     3610, 1701, 5129, 8368, 859, 5103, 3502, 5691, 8568, 8700, 8987, 8867, 4604, 3194, 9178, 7878, 5801, 4833, 2497, 5026,
     2183, 5643, 9499, 912, 5517, 3570, 5929, 8555, 941, 439, 2932, 6765, 9297, 6911, 6126, 7459, 3668, 6609, 232, 9162,
     8884, 7962, 444, 3527, 1157, 7100, 745, 1331, 7763, 1466, 7302, 1848, 1169, 5404, 5066, 2536, 5336, 8225, 7334, 6723,
     8336, 3993, 2051, 3596, 8716, 4687, 4376, 4191, 6048, 6960, 8129, 4872, 1738, 7377, 9077, 4805, 7986, 2845, 1002, 9690,
     7753, 2117, 8547, 5763, 4705, 245, 265, 9690, 3941, 5280, 4131, 1519, 6320, 2387, 1959, 1952, 6374, 2586, 1476, 6890,
     4865, 8853, 1128, 6870, 9058, 1503, 831, 560, 2676, 3362, 3846, 4414, 8683, 3262, 8954, 6791, 1576, 94, 2427, 2434,
     6608, 8310, 7052, 6078, 5960, 6311, 8902, 4270, 1351, 3932, 2389, 6132, 2305, 6792, 5537, 8655, 5975, 7549, 7680, 6550,
     4563, 113, 7692, 1496, 3249, 5574, 1039, 8340, 7512, 6851, 8735, 6324, 4602, 1845, 7561, 1029, 3174, 2760, 8959, 4628,
     242, 8044, 2605, 9789, 5688, 3739, 4217, 6124, 7813, 9174, 1755, 5195, 8918, 8615, 6280, 2682, 6600, 2188, 5209, 2451,
     6173, 6637, 4683, 6188, 6111, 7839, 3184, 5926, 554, 8887, 7540, 1145, 3236, 9526, 5675, 1299, 5028, 303, 5166, 3484,
     9280, 5745, 8697, 8690, 7513, 680, 9241, 7018, 5756, 9556, 2423, 9327, 2841, 699, 7569, 9046, 7492, 3878, 1404, 9177,
     7185, 2018, 3382, 2611, 6359, 9349, 3195, 1415, 1382, 5614, 7422, 9759, 6856, 9295, 1099, 5289, 5766, 9023, 1569, 5904,
     4488, 8892, 6298, 1231, 6772, 2516, 8724, 9278, 3159, 7453, 1972, 4280, 7346, 6178, 1591, 5181, 578, 888, 6812, 6325,
     7148, 9299, 7229, 5466, 4428, 6831, 281, 8831, 5980, 5389, 3452, 2781, 737, 3274, 9871, 2579, 2241, 7305, 2180, 763,
     4632, 4842, 6347, 563, 3510, 7761, 587, 3723, 5427, 3383, 9594, 6682, 6939, 7812, 443, 1741, 992, 4017, 1630, 3178,
     566, 9755, 9958, 7533, 7951, 4452, 3227, 1405, 8702, 7172, 6124, 799, 4480, 4471, 5697, 836, 4526, 648, 9995, 3979,
     6803, 3430, 1238, 7550, 9356, 6485, 9947, 5707, 2622, 7048, 7655, 413, 5034, 8661, 1862, 1185, 8605, 1204, 4308, 9577,
     7232, 3478, 2440, 2803, 2349, 7321, 7485, 3163, 9959, 8901, 8873, 6861, 387, 3587, 1120, 8194, 1305, 6314, 184, 6133,
     3093, 7555, 7255, 3557, 649, 8185, 8726, 5623, 9457, 3459, 2319, 1775, 2348, 6880, 7119, 756, 5387, 8674, 6082, 3061,
     7899, 7079, 3226, 7975, 6607, 4960, 3910, 3539, 5478, 3619, 9876, 3706, 3218, 2207, 3645, 1710, 9872, 6620, 5466, 689,
     5902, 651, 7176, 9225, 6773, 3805, 1109, 918, 3893, 2087, 5090, 4944, 4451, 5278, 3421, 9208, 3208, 7379, 8586, 4211,
     6293, 3755, 2807, 2578, 4555, 4881, 6865, 7128, 9660, 8853, 5921, 4867, 9512, 8690, 7619, 9647, 7763, 3923, 7025, 5837,
     7552, 6812, 9353, 7947, 7717, 7218, 6941, 666, 5895, 9198, 1014, 5674, 6659, 5660, 768, 5468, 3847, 1456, 3222, 8455,
     5718, 8652, 1659, 238, 7567, 4243, 2590, 9990, 8298, 4058, 4902, 7240, 6933, 5542, 8344, 6263, 4012, 2586, 1208, 1468,
     3623, 3598, 8497, 9138, 3829, 4701, 2962, 9625, 6198, 5763, 9759, 1010, 778, 3526, 6425, 7446, 9082, 9428, 6196, 7136,
     7149, 1518, 1698, 9972, 391, 800, 5931, 8299, 9033, 487, 5983, 5548, 8846, 4055, 7021, 8526, 8974, 5404, 1041, 7198,
     8549, 5369, 1139, 9643, 813, 774, 7550, 1518, 9111, 825, 6463, 5371, 795, 6043, 5918, 812, 1734, 6572, 6795, 5858,
     1304, 3920, 1801, 9884, 3859, 4988, 8839, 4219, 7738, 3913, 991, 7858, 524, 2842, 3535, 9490, 5906, 4316, 2914, 1206,
     6331, 8809, 3862, 7145, 2697, 7110, 7914, 4644, 9341, 4988, 3677, 2892, 3813, 5717, 19, 4825, 957, 7822, 5714, 626,
     9067, 8108, 1575, 545, 3478, 9668, 8004, 3635, 3473, 1399, 4642, 1660, 8264, 8072, 6421, 8382, 1883, 1670, 5796, 2047,
     9179, 4289, 2281, 5512, 9551, 6119, 6651, 5569, 6040, 7889, 2039, 6937, 9205, 5773, 6374, 3183, 8358, 9908, 3782, 7622,
     6136, 873, 9450, 1006, 3073, 7899, 216, 1149, 5767, 7205, 5219, 8303, 5483, 288, 9115, 2767, 2469, 3347, 1795, 9343,
     2963, 7342, 3314, 3441, 8356, 3416, 4831, 1685, 9187, 7689, 9241, 1936, 8164, 7797, 4022, 6980, 392, 2655, 5142, 2326,
     3172, 3927, 7895, 3387, 5784, 4981, 7438, 2509, 4038, 5701, 2166, 7318, 8343, 7069, 3856, 3793, 9378, 1199, 2275, 8017,
     850, 9800, 6683, 213, 3625, 235, 6634, 3884, 3122, 1145, 282, 9972, 5790, 3867, 1455, 5708, 8665, 6936, 4378, 5228,
     2879, 5154, 9487, 265, 8690, 8299, 2491, 1740, 9358, 9936, 0, 5687, 2240, 1261, 6873, 8709, 1385, 9797, 4316, 9999,
     4642, 3679, 4149, 7889, 3901, 7481, 648, 469, 3740, 733, 6302, 3581, 3151, 6921, 8358, 631, 9912, 4992, 3108, 6344,
     7146, 5413, 3623, 2131, 6634, 2788, 8919, 6953, 5353, 3546, 7694, 2292, 6313, 5539, 7462, 1095, 7951, 4316, 3784, 4986,
     5086, 5932, 6993, 6807, 758, 7283, 4774, 2870, 2109, 6432, 3246, 9590, 3189, 9229, 2859, 2725, 8113, 192, 8795, 3928,
     2106, 1395, 4005, 3302, 3214, 3350, 2277, 8130, 1616, 5069, 2951, 2355, 3606, 186, 3619, 4649, 6109, 1601, 162, 9285,
     1431, 4597, 2345, 5821, 9643, 6017, 2276, 4093, 7202, 1571, 4197, 3451, 5957, 6685, 4029, 7059, 1864, 6120, 6845, 1501,
     7666, 403, 1335, 139, 2927, 3402, 3941, 6038, 6486, 875, 865, 3663, 7773, 1504, 1103, 6442, 3901, 8735, 371, 8408,
     8206, 7942, 8443, 810, 2934, 1824, 2003, 893, 5266, 597, 544, 1722, 3450, 6109, 2476, 125, 5924, 8262, 2542, 2364,
     9663, 1812, 8799, 86, 1463, 7004, 5729, 9546, 2930, 1328, 2704, 4005, 6584, 8128, 9913, 9161, 5043, 1596, 2899, 9198,
     6695, 9703, 8043, 3162, 2068, 4390, 2657, 6220, 2703, 5710, 2202, 9892, 2172, 219, 2172, 9552, 8973, 470, 9675, 3393,
     2483, 1175, 8325, 4996, 6497, 6717, 9255, 8646, 9148, 9445, 1738, 2441, 2668, 5480, 73, 6657, 3139, 5255, 9952, 5047,
     3356, 4843, 7869, 616, 2452, 3599, 6723, 8494, 7161, 782, 3163, 6066, 973, 5960, 2387, 2514, 587, 5432, 7525, 7428,
     3240, 4232, 5871, 3758, 6101, 5425, 912, 4447, 2285, 1253, 8746, 7339, 360, 7175, 9132, 9123, 2697, 6158, 5814, 3442,
     5788, 2415, 1514, 1741, 2629, 739, 5547, 699, 1639, 925, 6484, 3983, 2953, 6968, 327, 896, 7970, 2268, 2005, 8463,
     748, 6785, 6962, 5190, 5716, 6980, 1151, 1727, 7242, 1006, 9832, 219, 6957, 5845, 7802, 6311, 4727, 9648, 7689, 9902,
     3572, 3654, 9690, 3812, 4176, 9775, 5134, 9653, 2773, 8776, 5473, 9459, 4731, 2180, 7394, 9202, 8917, 2804, 4522, 1257,
     3912, 4323, 500, 7452, 2899, 4830, 835, 2665, 5866, 8306, 5609, 7812, 6362, 7899, 4609, 1812, 451, 924, 6950, 5701,
     1873, 6317, 7196, 5093, 5845, 8250, 1450, 7214, 7957, 7510, 1350, 9189, 3687, 8440, 7193, 6919, 2205, 7860, 9509, 3716,
     4527, 8155, 6131, 7694, 9007, 1804, 7319, 9203, 7292, 119, 9487, 9672, 3149, 7809, 9350, 2529, 3914, 6078, 4762, 8736,
     2717, 6927, 6713, 5638, 1412, 6638, 7449, 5021, 73, 220, 838, 3096, 6789, 5808, 703, 746, 5261, 9213, 258, 3110,
     4546, 8455, 2874, 7085, 9262, 2900, 5542, 751, 3454, 4384, 1907, 3445, 4190, 3205, 3253, 6022, 7024, 5094, 2490, 6395,
     342, 5506, 9806, 502, 3712, 4298, 7611, 6241, 2954, 68, 8255, 18, 6807, 9831, 7587, 904, 342, 4861, 3734, 4716,
     7376, 577, 4226, 8075, 2240, 4449, 7526, 8864, 2601, 6922, 3148, 968, 7442, 1726, 3711, 9917, 3863, 4641, 2462, 1514,
     6949, 9772, 5152, 9933, 6087, 6136, 9250, 6627, 3406, 3484, 162, 7619, 6099, 6069, 9428, 423, 6602, 7339, 1422, 85,
     8291, 4875, 989, 1484, 9903, 2005, 8659, 1865, 5782, 6325, 3492, 8599, 4032, 118, 9353, 8884, 1152, 3486, 2180, 8367,
     6590, 4982, 7433, 5940, 2378, 1465, 7472, 3669, 1583, 7910, 2599, 6632, 1776, 4941, 4878, 9872, 442, 4101, 792, 6585,
     7, 2993, 2061, 83, 321, 6063, 3013, 1425, 2702, 2973, 3127, 4542, 5667, 4557, 789, 5834, 3042, 2393, 4564, 5037,
     4756, 9313, 6763, 8550, 2659, 4783, 8479, 9083, 2764, 9797, 9591, 8131, 7258, 764, 9353, 45, 8810, 9130, 2269, 3091,
     5573, 3630, 2181, 8859, 7574, 7032, 9211, 345, 6124, 8647, 354, 4911, 5626, 2949, 7206, 6177, 2398, 9616, 9424, 106,
     9124, 3661, 9197, 9960, 8414, 8848, 6909, 231, 2365, 4598, 5903, 716, 7558, 4403, 1663, 3850, 3531, 4620, 9010, 6397,
     4506, 6515, 2840, 7356, 1071, 4123, 3437, 7608, 9852, 9687, 2572, 315, 5400, 2857, 3562, 2303, 8517, 1402, 476, 6851,
     6481, 1968, 9394, 946, 1775, 3846, 3673, 4183, 2280, 1723, 2070, 3184, 6013, 4981, 9999, 603, 6211, 4924, 3851, 1360,
     819, 9393, 1061, 5226, 8872, 7567, 7092, 2737, 6512, 5051, 4413, 3202, 7389, 1179, 1837, 9439, 7859, 8933, 3187, 3956,
     1208, 7795, 2528, 6655, 8424, 2073, 688, 7881, 495, 2883, 8421, 8237, 6496, 7566, 1699, 7193, 3914, 6489, 1056, 8500,
     8171, 1009, 6326, 1198, 9530, 4988, 4996, 6075, 1925, 2764, 5523, 9296, 1466, 5885, 4971, 6017, 730, 1722, 6689, 7162,
     3217, 7126, 9780, 218, 3522, 1590, 2955, 5688, 8741, 384, 3281, 433, 4790, 716, 3875, 2645, 1196, 5995, 5251, 2048,
     6389, 9673, 9352, 4153, 2887, 2315, 9268, 3903, 64, 1299, 298, 8492, 3693, 2584, 8624, 7084, 5495, 6104, 4982, 6440,
     421, 1518, 6804, 2931, 1199, 7691, 3894, 1428, 5275, 2249, 1360, 4062, 7948, 7351, 7143, 8118, 4169, 7297, 474, 7929,
     6504, 6623, 2183, 7551, 3767, 5090, 5157, 7302, 9804, 8506, 2869, 17, 2818, 8211, 6450, 2030, 4212, 7516, 6885, 6142,
     8157, 5186, 4327, 4862, 7002, 763, 1850, 6192, 1541, 896, 6083, 7919, 6271, 9228, 7351, 1895, 6568, 3416, 2232, 448,
     8148, 2592, 8665, 4609, 2534, 9053, 1953, 3512, 6383, 3290, 8733, 7675, 8370, 9253, 7327, 82, 8178, 5600, 2929, 6252,
     3529, 8048, 787, 6501, 9001, 2615, 2896, 1680, 1015, 9641, 1486, 6392, 3986, 7015, 6901, 13, 6306, 1982, 544, 9317,
     5122, 9016, 8494, 6930, 6245, 6572, 8899, 3199, 9391, 2885, 4023, 9752, 4582, 4827, 331, 4994, 8031, 4238, 2852, 4644,
     6525, 3333, 9209, 722, 1701, 4676, 810, 8185, 7573, 7878, 590, 7301, 2996, 8328, 5365, 2980, 8284, 6331, 6901, 8028,
     5167, 9966, 563, 6466, 4139, 4583, 5870, 7068, 7985, 9222, 1635, 4211, 7169, 7709, 7856, 6097, 8714, 252, 196, 8970,
     8230, 3147, 9660, 4250, 8233, 1264, 4763, 5013, 8795, 7899, 7426, 1204, 3414, 465, 7319, 2135, 3482, 6990, 3131, 5405,
     4196, 9136, 6640, 2270, 2632, 2633, 7037, 3491, 4148, 539, 4288, 359, 2897, 534, 7335, 8152, 5954, 3110, 2918, 2387,
     9140, 114, 8564, 9309, 8415, 5679, 7979, 9449, 3668, 9243, 9058, 8704, 4886, 8220, 1103, 5561, 6057, 9871, 3001, 6603,
     3005, 5785, 4422, 3118, 1492, 5730, 6670, 3039, 8470, 9432, 9604, 549, 5681, 7304, 3667, 6297, 515, 510, 6466, 5524,
     5822, 8668, 8678, 8470, 6225, 4962, 5659, 5705, 8030, 1536, 8044, 790, 3188, 7106, 1562, 1380, 60, 6148, 2304, 1248,
     5032, 5595, 7567, 1128, 2095, 4861, 8868, 5572, 9950, 6421, 7548, 626, 2441, 9813, 7909, 7808, 9275, 5290, 3916, 4375,
     380, 9163, 9504, 6828, 6838, 3953, 4607, 4202, 343, 5343, 1700, 7847, 6521, 433, 100, 8825, 7144, 4682, 1736, 2633,
     4413, 2194, 1486, 8248, 9862, 7140, 955, 6141, 1277, 4355, 6090, 2221, 9358, 1526, 9828, 5315, 4296, 3224, 1605, 5443,
     5467, 4900, 4935, 4077, 2037, 6516, 6926, 2558, 9058, 8532, 181, 9450, 1876, 1802, 6895, 5415, 3332, 2091, 4399, 4105,
     5881, 1790, 9043, 2060, 8050, 6873, 9101, 6534, 67, 4013, 3114, 2080, 1077, 4396, 5705, 2519, 9512, 1368, 4063, 7379,
     3777, 9114, 352, 3640, 4798, 6533, 6613, 4888, 5038, 2601, 9216, 3204, 2530, 1965, 4878, 4090, 1211, 4882, 1442, 8079,
     7912, 6239, 1204, 7184, 9733, 8239, 2940, 9269, 1086, 703, 5595, 6068, 5161, 5726, 4003, 9387, 2014, 5103, 7321, 5925,
     217, 6280, 807, 7084, 619, 6927, 3818, 2595, 7809, 580, 8832, 6286, 8940, 7460, 6861, 9252, 7289, 3805, 8178, 8007,
     8744, 5124, 5531, 5505, 9706, 2616, 785, 8616, 9030, 3830, 2885, 3870, 3645, 4207, 1407, 6804, 4653, 1797, 3590, 8513,
     4606, 6587, 539, 1900, 1288, 6603, 613, 4688, 4546, 6112, 1680, 2510, 5045, 7425, 1462, 7748, 3306, 1144, 355, 1183,
     3361, 3600, 9567, 1098, 4876, 3068, 9343, 7348, 8163, 970, 3420, 8954, 4089, 8354, 8331, 5483, 5861, 7910, 6971, 8685,
     8048, 1746, 1853, 9910, 9364, 8945, 4954, 9904, 2551, 2683, 4032, 438, 5275, 6112, 3621, 3600, 7052, 7446, 4364, 8747,
     7705, 3715, 195, 9471, 765, 894, 8534, 3267, 17, 9249, 3048, 3256, 2731, 1056, 9399, 8754, 5224, 1594, 8733, 3735,
     7878, 2341, 2714, 1644, 4848, 5102, 8780, 4041, 6799, 2270, 155, 9403, 3837, 4876, 1614, 4574, 2515, 6374, 9334, 6087,
     4378, 1013, 7390, 8753, 1714, 5244, 6882, 4589, 9507, 5223, 4571, 4429, 4580, 4202, 6809, 2871, 2861, 2640, 9016, 8570,
     2738, 3324, 3541, 8260, 9848, 8031, 9059, 5606, 4547, 1395, 4370, 1369, 7416, 6640, 5721, 9864, 4990, 3545, 3909, 7327,
     5966, 6342, 8519, 200, 7573, 8487, 383, 7234, 4913, 5813, 922, 7000, 9584, 6119, 7175, 4509, 8989, 8459, 778, 5825,
     8004, 5495, 2575, 8956, 6926, 3307, 2206, 8699, 1934, 5514, 6419, 484, 6640, 164, 8629, 2367, 1716, 2128, 1230, 758,
     5863, 9061, 1465, 8918, 5318, 5462, 886, 6182, 7186, 223, 3175, 3653, 6891, 5511, 2825, 7166, 984, 3108, 5847, 3439,
     3671, 2546, 5098, 1746, 7613, 9404, 390, 468, 8075, 1299, 4177, 4700, 4308, 5327, 5203, 6183, 614, 951, 1576, 7510,
     196, 8793, 6250, 1558, 6317, 1800, 4827, 9560, 257, 3179, 6151, 4280, 3770, 6570, 5590, 7473, 7244, 4440, 3103, 5540,
     3684, 5713, 92, 1166, 9059, 6991, 9902, 251, 1144, 4160, 2779, 3660, 6465, 7046, 8901, 5921, 7150, 8009, 5813, 2599,
     5954, 3304, 3237, 7279, 3348, 6687, 343, 1739, 6224, 2147, 4539, 9456, 457, 8941, 4040, 4752, 7877, 7866, 7443, 8154,
     5573, 2710, 2274, 2571, 7652, 3448, 9420, 7641, 5595, 2313, 5315, 953, 8052, 9563, 72, 9085, 2364, 288, 5825, 2025,
     652, 4101, 8643, 9615, 2142, 6778, 3650, 2161, 1661, 5851, 3067, 783, 5464, 494, 1145, 8802, 5587, 2192, 4288, 7864,
     60, 4443, 8538, 5153, 1487, 439, 858, 8702, 2847, 5827, 3345, 2829, 3724, 9033, 1449, 3457, 7797, 5423, 2604, 7296,
     6034, 754, 4396, 2686, 5011, 4147, 4080, 7108, 8655, 933, 2861, 2645, 5617, 6318, 3972, 8171, 3928, 7240, 5184, 7781,
     5307, 2380, 6636, 3891, 874, 6625, 8671, 7927, 4603, 7758, 9379, 4369, 9216, 2357, 1388, 6703, 3898, 7664, 8411, 7361,
     9840, 1561, 720, 8845, 7728, 8163, 4059, 7582, 438, 8691, 2506, 4943, 4968, 5335, 927, 9226, 5695, 8108, 2604, 3392,
     1517, 2789, 7194, 6569, 9267, 8955, 838, 3116, 873, 4728, 7630, 5928, 4542, 4804, 8364, 5, 6698, 2540, 3071, 9246,
     6575, 8719, 6295, 2256, 3644, 7804, 4771, 4284, 7690, 2230, 4259, 6402, 7149, 8281, 4295, 2978, 552, 9556, 7915, 2404,
     2369, 1234, 8503, 5935, 8140, 7553, 7710, 5334, 7115, 1365, 6654, 5831, 611, 9060, 5193, 8609, 935, 1727, 8344, 6031,
     5221, 5875, 7924, 450, 2217, 2705, 5185, 7727, 8675, 3992, 5117, 4162, 6155, 2658, 4443, 8843, 5371, 3466, 9811, 1058,
     4877, 3176, 3900, 2683, 6105, 5697, 1203, 5295, 3716, 1952, 7264, 4232, 8485, 9062, 3852, 2337, 644, 9920, 1127, 5421,
     3420, 8683, 9849, 2868, 4705, 1856, 5483, 320, 1293, 124, 5159, 3352, 4402, 9971, 2123, 9028, 3349, 9142, 4055, 4610,
     5340, 4795, 9413, 9023, 7407, 5780, 8969, 569, 7366, 1491, 232, 972, 8176, 6410, 6387, 3411, 3009, 1497, 2211, 2940,
     1526, 7599, 5193, 5813, 1642, 5841, 3417, 926, 5059, 9974, 5287, 8867, 4277, 1476, 6281, 8704, 298, 5600, 6164, 9429,
     9489, 1372, 2541, 3414, 7301, 2819, 3454, 6700, 7607, 6959, 3218, 6576, 6611, 8598, 5116, 2467, 1458, 1357, 5605, 3009,
     308, 8124, 1520, 7958, 3811, 2381, 7142, 9234, 5253, 3375, 9585, 611, 6183, 9715, 6881, 6113, 1646, 7256, 8608, 3348,
     5835, 743, 7620, 5909, 4783, 9025, 9346, 4978, 1506, 8091, 2275, 3907, 4937, 6312, 6750, 1216, 4289, 6990, 5372, 9289,
     3510, 7232, 5442, 3154, 9999, 8400, 1573, 7715, 8054, 4539, 6717, 5131, 3915, 1473, 8893, 2319, 7965, 562, 9818, 2092,
     3885, 7954, 2186, 6844, 494, 5279, 6880, 9012, 9430, 1775, 3917, 9032, 8217, 1164, 6214, 456, 8856, 3444, 9682, 5011,
     848, 6631, 516, 950, 4293, 4477, 6418, 3966, 1689, 1782, 2178, 2543, 4807, 4338, 3652, 2951, 7294, 328, 1883, 6443,
     288, 1996, 3654, 6844, 1482, 4055, 7052, 8746, 3754, 9092, 4340, 9280, 3620, 9284, 5701, 5314, 7706, 2591, 5597, 6146,
     8820, 7967, 2137, 8481, 6726, 7473, 56, 6967, 3773, 3541, 9050, 5555, 4980, 7730, 3148, 2782, 4624, 2037, 7671, 2139,
     5068, 145, 9100, 3367, 3021, 3491, 7953, 422, 4929, 6040, 3231, 8602, 5102, 2078, 400, 7251, 7534, 1210, 4145, 3572,
     251, 2926, 745, 769, 4284, 9502, 4251, 2151, 2358, 9459, 3498, 6861, 1930, 4879, 3850, 8019, 9466, 5706, 4309, 8780,
     8056, 7884, 8491, 2141, 6920, 1137, 1091, 3468, 6026, 4522, 2283, 2887, 4723, 4385, 742, 5955, 4026, 4141, 5469, 3461,
     1341, 7199, 8699, 3562, 6139, 2725, 1969, 4106, 4702, 7674, 6165, 6552, 8171, 2524, 342, 159, 8750, 8951, 1329, 1449,
     4737, 5176, 5493, 893, 5654, 2117, 5820, 2402, 2544, 3526, 8402, 7115, 9154, 4558, 6221, 4311, 1366, 9561, 9590, 341,
     18, 5198, 9964, 8445, 5205, 6894, 8813, 5048, 5666, 2542, 9574, 5932, 9525, 2117, 8033, 2213, 4587, 6592, 85, 6393,
     4233, 6224, 1992, 5925, 372, 5605, 6543, 9482, 7966, 4967, 9359, 2369, 1638, 7544, 1583, 4671, 2249, 3066, 9349, 4774,
     5364, 2032, 9774, 1292, 2575, 5171, 4304, 2734, 9277, 9927, 3938, 7805, 9138, 2931, 3853, 6011, 8202, 2473, 18, 9669,
     2019, 1575, 2219, 5101, 8386, 7167, 6339, 1518, 5948, 6466, 7313, 4920, 5540, 6657, 8800, 1485, 3913, 3430, 1185, 6491,
     5142, 9511, 1254, 4368, 7226, 2259, 1281, 8336, 1199, 3996, 8920, 6856, 3701, 5925, 3528, 1616, 6865, 4448, 5095, 4098,
     183, 8390, 2290, 9457, 877, 7379, 6233, 5826, 1226, 2257, 4868, 8290, 1034, 7230, 7663, 7582, 8923, 7398, 3825, 9197,
     9085, 1433, 7760, 2922, 7658, 3356, 1533, 3192, 7466, 696, 4087, 992, 5394, 1615, 4243, 1337, 8609, 4507, 7036, 6272,
     9168, 7646, 3577, 9940, 4915, 9526, 5032, 2115, 1562, 3899, 1611, 8116, 2780, 1974, 8072, 6290, 5191, 7375, 7465, 7853,
     8658, 7395, 4111, 4950, 6881, 1812, 1859, 4303, 9610, 4059, 9786, 1358, 6600, 7791, 8162, 8779, 4670, 7984, 715, 6697,
     4125, 5284, 3921, 1574, 6376, 3080, 9570, 3275, 1845, 5545, 8434, 8186, 4468, 1019, 7835, 1525, 3087, 6806, 6437, 5561,
     7978, 6379, 6601, 6126, 5288, 6841, 9325, 8192, 7034, 4831, 4037, 967, 805, 1079, 5624, 8983, 5149, 3988, 3463, 1207,
     8542, 3066, 8782, 3457, 365, 7862, 3641, 7334, 8825, 1301, 3336, 3832, 421, 6118, 2695, 8212, 9983, 8615, 4382, 5613,
     2192, 7241, 447, 6134, 8944, 3727, 4960, 2799, 9354, 5921, 9127, 8369, 9287, 766, 4847, 3237, 1037, 3871, 8661, 6198,
     3636, 9723, 9938, 7784, 6530, 6833, 8896, 2130, 7432, 1838, 5657, 3370, 6858, 2863, 5126, 1333, 87, 926, 8023, 2738,
     8488, 6554, 727, 9947, 152, 3776, 581, 8031, 7636, 8905, 2444, 8276, 1391, 4811, 3170, 4930, 3392, 9901, 4844, 1429,
     94, 1889, 8520, 3142, 2590, 5427, 7526, 8012, 8156, 9269, 1514, 3228, 5421, 6803, 9432, 9511, 828, 8316, 5184, 5490,
     288, 9657, 4637, 2312, 356, 4691, 6342, 4099, 7034, 6910, 7312, 1264, 3592, 1404, 8961, 2971, 1937, 3679, 1098, 7325,
     9111, 2526, 4582, 5851, 7753, 4585, 4833, 9962, 2539, 1524, 6155, 1391, 2952, 367, 7099, 7258, 4417, 2344, 4432, 5596,
     1093, 8210, 3747, 6007, 471, 2007, 2762, 7483, 5954, 2874, 695, 7648, 2914, 7145, 1107, 5834, 6348, 719, 4431, 7301,
     1523, 2679, 2548, 5005, 6211, 8943, 4617, 6801, 3783, 1410, 7236, 6817, 4017, 8432, 5744, 7414, 451, 130, 6120, 4724,
     4497, 8037, 127, 1472, 8020, 3094, 1039, 2580, 80, 7682, 2636, 8800, 5639, 940, 3253, 180, 7878, 4991, 2429, 1735,
     5433, 6348, 8785, 1692, 680, 1962, 7150, 7421, 4472, 9459, 5503, 4573, 7945, 1814, 5374, 3873, 7559, 6563, 6203, 5572,
     193, 8570, 9050, 6124, 5726, 3455, 5988, 6997, 1984, 3514, 7278, 4897, 8561, 6395, 4501, 6814, 9763, 8718, 3478, 1285,
     2022, 957, 1735, 8948, 369, 7794, 1961, 6573, 9933, 1663, 4526, 4028, 3681, 4390, 7794, 9447, 9989, 5244, 8901, 1307,
     3702, 6322, 7431, 5352, 1725, 5710, 6367, 1954, 8159, 8164, 1489, 2037, 3364, 16, 2672, 2636, 5359, 7865, 8612, 2077,
     8670, 6026, 831, 563, 5450, 5560, 9477, 7447, 677, 4566, 3907, 2384, 9807, 1913, 4293, 4281, 3635, 4061, 2044, 1698,
     9658, 1149, 7477, 9305, 2987, 8106, 9318, 6237, 4598, 1582, 8555, 2704, 1843, 1723, 6110, 6468, 2549, 3143, 7419, 5471,
     9922, 1825, 5231, 5143, 2695, 2674, 4771, 7619, 8278, 9318, 6101, 7194, 5871, 6174, 4583, 9566, 822, 2830, 6057, 7639,
     4139, 8805, 8807, 1593, 6685, 8974, 770, 8061, 5957, 2307, 1744, 7705, 8368, 6228, 6102, 8858, 6815, 3687, 9331, 176,
     9935, 3436, 1710, 3064, 1695, 8012, 4627, 6566, 2165, 8463, 4755, 2064, 630, 2754, 2046, 8142, 5459, 2136, 3956, 8569,
     3494, 4523, 9421, 3561, 5008, 8961, 8636, 9387, 795, 8165, 8456, 7779, 3156, 9310, 4581, 9234, 2599, 9700, 9502, 898,
     3102, 3604, 637, 3057, 5923, 1434, 5725, 5072, 127, 6174, 7080, 6898, 7401, 3183, 237, 3520, 2639, 6392, 7746, 235,
     8948, 1975, 2006, 9848, 8337, 7092, 3979, 1509, 6066, 4877, 2081, 5330, 1706, 8169, 220, 8673, 5129, 9490, 7688, 296,
     6861, 2059, 9251, 9300, 719, 1015, 9517, 5015, 922, 7673, 9635, 1143, 4667, 6067, 2878, 6696, 8715, 6618, 671, 1612,
     4451, 762, 3628, 3405, 5837, 5216, 8720, 3862, 5860, 628, 9319, 948, 7148, 6909, 9693, 9660, 9125, 8431, 5753, 966,
     2426, 3218, 919, 362, 729, 3378, 5850, 4533, 9674, 5459, 5464, 5965, 5347, 2688, 3601, 918, 4765, 7456, 2317, 6514,
     6410, 8541, 5508, 5973, 6217, 6394, 115, 7578, 5623, 1391, 4096, 1078, 6568, 5210, 5023, 1346, 8096, 5419, 2022, 2608,
     2753, 8395, 4757, 4887, 5594, 856, 4115, 8898, 3785, 3736, 9806, 7064, 9964, 6466, 7975, 5834, 9620, 7010, 7776, 4030,
     9872, 115, 5700, 6906, 780, 8716, 4197, 6247, 8100, 3823, 7619, 2666, 7798, 39, 8142, 1966, 963, 910, 667, 2173,
     8762, 778, 9616, 4397, 2281, 7508, 6940, 678, 5185, 2759, 7110, 5370, 5617, 3224, 1627, 7353, 1578, 3563, 6551, 4551,
     4168, 1166, 2303, 105, 9442, 3827, 3340, 8428, 2114, 6897, 6188, 2081, 272, 3586, 6551, 8575, 1851, 701, 875, 7003,
     9541, 7787, 5818, 2902, 9008, 3363, 3019, 5237, 7393, 5214, 2019, 8587, 1750, 9274, 9726, 9238, 5822, 1944, 1828, 5852,
     4491, 6272, 696, 2065, 9427, 5683, 7315, 8763, 2929, 8383, 5557, 1633, 690, 2833, 929, 3131, 2914, 6221, 7311, 5199,
     7267, 2927, 2324, 6669, 2795, 5894, 39, 3010, 8706, 3559, 2777, 5334, 7764, 959, 9721, 8871, 5842, 741, 1779, 9964,
     3999, 5, 925, 3012, 8672, 4109, 9920, 8327, 5836, 1081, 2937, 9615, 9790, 3585, 2680, 7075, 6777, 6262, 7866, 9064,
     6216, 2270, 293, 2424, 3527, 6271, 2524, 1451, 1213, 5272, 2888, 1975, 7737, 1758, 9432, 4880, 3063, 4192, 9779, 1798,
     8014, 7491, 3072, 7005, 9760, 7527, 9439, 9274, 4079, 6586, 3739, 3302, 3841, 7880, 9281, 2266, 9485, 9244, 5045, 5307,
     638, 6912, 6446, 9550, 378, 2276, 5886, 124, 108, 293, 1522, 1838, 5278, 5951, 3916, 9283, 5992, 8358, 3523, 4061,
     2949, 4358, 1937, 7641, 8820, 9849, 3403, 9815, 2718, 4639, 7893, 5077, 660, 3211, 1672, 6962, 3894, 6595, 6453, 6315,
     1473, 5178, 2996, 6881, 2524, 4504, 6115, 4269, 5608, 6785, 4470, 8165, 6486, 4559, 9377, 8326, 5467, 7955, 2667, 4419,
     3370, 3764, 5589, 3054, 7073, 906, 5946, 6685, 8815, 8130, 2558, 7850, 2498, 1479, 6815, 849, 8354, 3485, 3242, 9292,
     6453, 7736, 4547, 1351, 5219, 1218, 6884, 2348, 2679, 8751, 6317, 2911, 2124, 6343, 6419, 6405, 2132, 8642, 6153, 1415,
     2255, 1294, 8682, 6874, 9781, 8389, 6165, 2023, 5082, 3286, 1568, 9221, 8554, 2641, 314, 562, 8730, 8197, 6735, 7016,
     7088, 6907, 7979, 283, 1981, 1811, 3650, 6961, 189, 7200, 7069, 2258, 1339, 9357, 6499, 5171, 153, 1500, 2097, 4690,
     6514, 2120, 1928, 1608, 6109, 5972, 1494, 6142, 5146, 2650, 5782, 1127, 6611, 948, 8570, 5549, 8590, 3683, 6440, 7400,
     1051, 4950, 8184, 3996, 6783, 2973, 5418, 9939, 946, 9324, 3835, 2722, 5851, 2973, 3918, 7160, 8729, 6018, 6105, 755,
     9931, 2804, 1865, 2857, 9099, 4579, 6787, 9412, 7492, 1979, 633, 1724, 9394, 6973, 4972, 513, 1292, 3345, 6733, 5977,
     9480, 1546, 697, 7815, 9106, 1905, 1700, 2200, 7347, 1171, 5100, 8273, 3822, 773, 5170, 8206, 1678, 8394, 7804, 7600,
     5067, 8422, 4581, 9375, 1702, 808, 6073, 736, 9349, 5611, 825, 5338, 6860, 9299, 5623, 3121, 2463, 1789, 4261, 318,
     8745, 9932, 5842, 822, 1777, 6513, 2836, 1254, 2549, 9239, 7819, 2033, 8679, 990, 6569, 5306, 1087, 6652, 7710, 2980,
     7143, 3330, 9108, 4124, 561, 6248, 1373, 752, 5719, 6063, 5065, 8144, 6725, 4814, 4149, 9904, 4666, 7904, 5983, 9842,
     4303, 7536, 4172, 672, 8587, 162, 5696, 408, 6035, 8858, 2598, 7166, 1039, 7136, 7082, 3893, 671, 1911, 9377, 1072,
     3224, 7454, 1501, 6603, 1725, 7657, 8218, 7274, 5408, 9167, 5927, 4618, 2244, 9123, 9176, 4892, 687, 1793, 6873, 3626,
     1355, 7757, 1226, 1398, 4872, 4655, 5226, 1693, 425, 3496, 6099, 5067, 2807, 8847, 9718, 4997, 4245, 5793, 31, 8171,
     3201, 3415, 3081, 5612, 723, 3661, 6579, 8629, 4907, 1260, 5530, 7592, 9800, 6844, 7690, 710, 1548, 540, 8734, 780,
     691, 6161, 9121, 7027, 7366, 8811, 863, 7306, 4139, 3597, 7938, 3492, 3862, 9391, 6867, 5140, 2647, 6737, 3920, 4192,
     1844, 5413, 7211, 5252, 6140, 4977, 7245, 8977, 4075, 5756, 2972, 8606, 6171, 4035, 1446, 5617, 3916, 8934, 6109, 8776,
     3910, 870, 4058, 5599, 6191, 7538, 1028, 633, 3134, 1010, 4398, 7088, 2082, 4816, 2824, 6166, 8491, 7311, 7824, 974,
     6106, 2776, 4922, 4198, 3518, 6209, 9168, 5512, 9351, 6071, 1439, 1231, 3778, 4215, 696, 6076, 5009, 5888, 6374, 1886,
     7928, 5087, 635, 8573, 9618, 667, 5461, 9131, 6640, 5549, 2737, 4972, 9086, 4286, 1331, 272, 8689, 8772, 391, 9807,
     3902, 6721, 8803, 2925, 3733, 7203, 2431, 4460, 8962, 8405, 6449, 9321, 2684, 6167, 5236, 2444, 333, 9506, 9758, 577,
     911, 6733, 730, 6932, 1997, 4942, 717, 9864, 8967, 486, 3246, 1150, 1491, 9830, 4401, 576, 5643, 8564, 1160, 6389,
     3959, 5932, 1145, 4496, 9675, 7087, 9648, 1356, 6079, 250, 6147, 4422, 7875, 2230, 9604, 7041, 5982, 4731, 8221, 2696,
     4247, 2097, 155, 1639, 3375, 6494, 4935, 1286, 6276, 8133, 5806, 2425, 2261, 882, 7708, 1420, 192, 20, 6183, 7978,
     3220, 3758, 3377, 4976, 7898, 6765, 5587, 301, 5385, 7880, 211, 6637, 3691, 2136, 5763, 3530, 9966, 7925, 9184, 9027,
     9078, 1228, 9980, 2080, 6028, 2446, 1875, 8791, 1902, 5107, 9417, 5477, 906, 4286, 5356, 6037, 9814, 2408, 9134, 9697,
     2194, 5770, 8254, 7715, 2225, 9772, 7470, 5576, 525, 1749, 4215, 7285, 602, 8574, 353, 9145, 7116, 3076, 962, 1231,
     4953, 5740, 5740, 5627, 1795, 5121, 110, 695, 6190, 1009, 4895, 1552, 5997, 2514, 4610, 29, 6022, 3020, 8822, 494,
     1946, 5619, 7803, 5727, 6943, 6736, 796, 327, 3060, 6500, 2924, 7739, 1866, 1363, 7519, 5498, 4888, 8645, 9947, 9265,
     6896, 3273, 1418, 6969, 2561, 5931, 9824, 7179, 3947, 5869, 8212, 8652, 5250, 8233, 9182, 9440, 5170, 8670, 956, 5466,
     1748, 3947, 5660, 5596, 8984, 1070, 3985, 9249, 3887, 2582, 3998, 6354, 6119, 3829, 9219, 1018, 1960, 6095, 5990, 4983,
     7799, 7572, 8874, 7390, 3575, 2920, 6801, 192, 2524, 8764, 1991, 4016, 5340, 2930, 3895, 6070, 3729, 4561, 4696, 1966,
     8936, 3538, 8899, 2304, 8197, 6671, 5329, 1154, 1265, 9312, 7940, 9991, 2471, 2981, 8061, 6341, 1789, 1632, 5835, 4973,
     853, 6434, 108, 5769, 8888, 4838, 7023, 3917, 7693, 2202, 6770, 346, 4587, 4516, 2793, 6462, 5769, 5760, 6776, 3078,
     2150, 431, 1383, 8638, 6813, 7091, 8892, 1060, 5474, 792, 7290, 6987, 9133, 899, 9922, 7674, 2143, 7612, 3193, 832,
     452, 9777, 2246, 9171, 8601, 2876, 354, 7879, 7699, 9932, 4296, 9251, 9787, 1296, 977, 6881, 8500, 3469, 2787, 4831,
     5022, 3812, 6476, 9816, 1040, 6272, 9182, 8957, 8327, 9314, 1393, 2245, 3674, 5899, 1007, 2924, 2940, 6380, 174, 2012,
     2346, 6165, 9612, 374, 2481, 8119, 7922, 3184, 5272, 5920, 7199, 1325, 3772, 2343, 602, 3806, 392, 368, 9066, 9246,
     4024, 5915, 2525, 9433, 2875, 6538, 2627, 6432, 930, 2509, 8022, 2424, 3006, 199, 6863, 6365, 2882, 1578, 5946, 8804,
     3045, 6306, 8931, 2707, 2527, 8335, 7544, 5517, 8241, 6506, 2333, 6592, 941, 6070, 1112, 6109, 6640, 1566, 5861, 7999,
     42, 9575, 675, 6891, 929, 2154, 2564, 565, 9098, 3389, 4866, 3083, 2352, 9561, 7822, 8532, 386, 9748, 5773, 3924,
     3174, 7407, 1575, 4474, 9815, 1226, 6420, 9457, 2130, 3827, 7226, 6809, 8092, 4775, 4944, 8979, 5695, 3832, 2555, 2223,
     5834, 7100, 2, 2255, 9265, 9064, 5433, 9270, 8993, 2495, 3457, 8520, 3450, 3815, 2838, 9937, 5841, 7838, 8491, 6771,
     6, 7975, 8594, 5421, 4615, 2958, 7367, 9791, 3623, 1686, 2857, 1947, 601, 2355, 8902, 4802, 2384, 2754, 5220, 9937,
     9629, 9720, 1985, 9650, 877, 8448, 2965, 7005, 8589, 8973, 2964, 5835, 8003, 7253, 5760, 3580, 5683, 7264, 6196, 7170,
     1936, 7745, 9928, 6628, 1412, 4902, 5807, 1351, 7261, 7797, 2797, 4623, 4851, 8231, 8450, 9859, 7386, 3639, 2824, 49,
     1460, 263, 2619, 9064, 2848, 4247, 9854, 8361, 1288, 5118, 4698, 2687, 8537, 9432, 2881, 6043, 7757, 6753, 25, 6019,
     5539, 3184, 4601, 4967, 1177, 9681, 2024, 7586, 4156, 561, 7894, 2204, 1158, 1483, 7341, 8845, 3886, 1405, 3398, 2863,
     1932, 7411, 9256, 3102, 5657, 7110, 6603, 5967, 5468, 7933, 6608, 8321, 6582, 6621, 5161, 9744, 9629, 558, 4794, 9352,
     8059, 1328, 6808, 6102, 2751, 1020, 7720, 3525, 4106, 4036, 4658, 9125, 7795, 4995, 5343, 8465, 6344, 3571, 483, 2344,
     1125, 1749, 7891, 624, 3684, 3408, 8468, 4515, 5302, 3097, 6626, 258, 7613, 1300, 2686, 9481, 6266, 2475, 4321, 8625,
     2383, 2461, 8303, 5221, 8726, 1318, 6659, 4087, 7045, 219, 5231, 3046, 1267, 1195, 7701, 721, 1891, 8255, 8648, 615,
     2843, 3608, 1706, 5014, 6969, 9801, 2108, 2797, 2092, 1378, 739, 4842, 715, 8014, 2144, 1555, 9416, 4874, 8522, 1786,
     9848, 2202, 2158, 9784, 7311, 5241, 3004, 3113, 9581, 7070, 130, 223, 8138, 227, 6817, 3745, 3207, 1534, 1014, 1846,
     6016, 402, 8305, 9129, 674, 1137, 500, 6761, 1826, 6098, 6222, 9031, 6603, 1078, 6356, 4639, 2207, 1644, 2609, 9487,
     1023, 9182, 4544, 5168, 6826, 5328, 8658, 3682, 4922, 8987, 8485, 2493, 458, 8941, 7773, 4747, 5737, 488, 2171, 5843,
     473, 5424, 4450, 1971, 9743, 1509, 4817, 4479, 9842, 5695, 6357, 7500, 6112, 1175, 394, 8966, 6669, 2272, 5616, 4458,
     82, 3760, 7474, 3686, 2585, 4757, 1172, 9551, 6698, 1386, 3821, 785, 5722, 3781, 4326, 2828, 1200, 7292, 136, 7891,
     9542, 448, 993, 9573, 3615, 3226, 7849, 563, 2656, 1657, 8688, 7130, 346, 6813, 8775, 7156, 249, 5562, 4775, 2235,
     1740, 4734, 8823, 4857, 4636, 4126, 6188, 3794, 4265, 2132, 8821, 4850, 8956, 9913, 7654, 1564, 211, 9693, 104, 3587,
     1659, 2495, 7767, 9877, 9245, 9553, 2992, 5172, 3183, 5295, 1046, 7087, 4343, 936, 429, 7540, 2173, 4019, 7254, 5662,
     4665, 9787, 9510, 8466, 1270, 8248, 6289, 6388, 6155, 2498, 8199, 9460, 6235, 1844, 7900, 969, 3089, 451, 174, 6495,
     8888, 6783, 5386, 4246, 1698, 4926, 1212, 916, 4530, 7248, 7886, 2892, 9729, 1979, 3864, 1004, 4398, 9446, 552, 6165,
     5299, 6832, 1299, 2962, 9794, 4376, 4730, 7277, 4714, 2605, 8334, 9606, 4917, 8622, 2957, 341, 8677, 4432, 8809, 7802,
     8580, 2550, 1409, 6058, 2244, 5103, 9736, 4279, 1188, 4971, 1015, 1212, 5073, 2978, 5400, 2990, 3806, 3617, 6116, 1775,
     2425, 7299, 9575, 3454, 9693, 4771, 420, 9012, 6076, 9850, 560, 8278, 1528, 7606, 5287, 5065, 1192, 2236, 9907, 6101,
     1779, 438, 1945, 5234, 4912, 5764, 1396, 740, 766, 4694, 2711, 3167, 9, 3021, 7719, 960, 540, 6191, 5269, 5731,
     5967, 541, 7608, 8856, 8031, 4613, 8019, 9848, 5313, 7346, 4133, 3773, 3957, 6729, 7114, 1077, 1172, 3063, 7485, 3318,
     5243, 3071, 8497, 6412, 5743, 405, 7693, 3141, 1562, 9653, 183, 1031, 4939, 5587, 3860, 394, 8054, 9475, 1862, 344,
     592, 6335, 7236, 1391, 6766, 3074, 8136, 1705, 833, 1518, 6407, 5785, 2106, 4065, 1955, 7220, 3890, 5526, 4496, 5269,
     3106, 8795, 5271, 4916, 7320, 845, 8171, 955, 777, 4878, 6435, 1389, 8005, 3783, 7825, 7426, 5240, 7804, 2731, 5445,
     5221, 4738, 3984, 9540, 4880, 2856, 1053, 253, 6758, 1533, 7486, 9773, 454, 8153, 5265, 1695, 11, 4430, 3412, 9336,
     6331, 6754, 2802, 447, 6794, 4630, 8996, 412, 7669, 5273, 8375, 9418, 7099, 4405, 8544, 9834, 3712, 7727, 4390, 425,
     2143, 1356, 8861, 7812, 1421, 9223, 4620, 8714, 3050, 5206, 6480, 2609, 6497, 6224, 5436, 2514, 6524, 4666, 5125, 8002,
     8957, 7941, 8033, 114, 1745, 919, 2115, 6195, 1702, 407, 9021, 354, 6524, 6058, 8554, 1498, 4934, 9533, 4385, 8323,
     8152, 1063, 9954, 532, 6114, 6247, 1787, 6989, 6575, 3347, 4301, 8023, 4739, 2834, 3287, 8760, 6537, 7448, 1755, 9379,
     8680, 1216, 6519, 5125, 8862, 4090, 5353, 9557, 599, 8524, 2513, 2092, 7299, 5974, 5712, 5292, 4111, 2895, 8155, 6899,
     4520, 814, 4319, 6693, 790, 3378, 4603, 8253, 7618, 2468, 1035, 2475, 610, 7536, 3558, 7616, 9575, 5194, 1252, 9012,
     7434, 5494, 6203, 9816, 6569, 7968, 9983, 3475, 9636, 2370, 4912, 7677, 3366, 70, 4060, 7710, 3057, 1188, 9442, 5772,
     646, 5473, 6621, 5334, 6101, 8797, 8694, 4773, 1091, 4262, 8432, 4101, 7110, 1, 6132, 3774, 3467, 2221, 2917, 7629,
     7182, 1739, 163, 3684, 9743, 647, 8531, 3275, 9843, 5101, 6053, 3457, 1178, 2266, 6255, 4498, 527, 6050, 6812, 2614,
     8450, 5915, 594, 2339, 6339, 3471, 3400, 6525, 9930, 4035, 7856, 2382, 8514, 3315, 1547, 8590, 5043, 8819, 6594, 393,
     5094, 7839, 2902, 8191, 7175, 1924, 9817, 3099, 4016, 3179, 8480, 9201, 8162, 2798, 5272, 5468, 3377, 3261, 8935, 50,
     2563, 6954, 816, 6363, 2957, 33, 9555, 5536, 1388, 6560, 7937, 203, 6269, 7081, 2139, 9329, 2519, 141, 4062, 2241,
     1862, 8885, 1937, 1844, 5450, 4833, 4034, 9422, 9162, 5209, 19, 7590, 808, 3357, 5785, 7043, 1195, 1257, 8180, 9901,
     6115, 4835, 2508, 4378, 9963, 3268, 6108, 8513, 6058, 3427, 6720, 5905, 5981, 4405, 9678, 6105, 5388, 8490, 1871, 5415,
     2562, 4354, 6104, 5573, 8007, 151, 1670, 7644, 4503, 3652, 6828, 1430, 2745, 1052, 585, 7496, 670, 1438, 171, 6246,
     8618, 680, 5322, 7138, 9261, 6464, 6537, 7531, 3221, 5473, 2714, 8610, 7240, 5992, 2491, 3984, 301, 6660, 8074, 3979,
     7568, 8814, 7372, 430, 8097, 5573, 7804, 9114, 3911, 2562, 5298, 7316, 2233, 4752, 1798, 4315, 7517, 8916, 1338, 3167,
     4155, 7669, 1354, 6255, 115, 1281, 7245, 7557, 2678, 7621, 593, 9573, 2832, 4044, 652, 6198, 5991, 7634, 7278, 311,
     4517, 2975, 2571, 3582, 3095, 8610, 8954, 4157, 8579, 3424, 9308, 3392, 1, 6050, 2321, 384, 8627, 8592, 9453, 8168,
     3068, 8265, 2112, 4956, 1813, 2291, 9043, 6517, 5379, 3282, 4496, 1527, 6215, 7776, 4250, 575, 9300, 9452, 9927, 813,
     1804, 8267, 1495, 5418, 8791, 2990, 2620, 4679, 2266, 8431, 6919, 6369, 3457, 7541, 768, 8938, 6700, 539, 2236, 6383,
     3683, 5639, 298, 3068, 8978, 8568, 2751, 3228, 4193, 5533, 2937, 6475, 4110, 6915, 7625, 9411, 9717, 6396, 7091, 617,
     3129, 2162, 538, 1987, 4175, 7816, 5564, 9838, 3275, 6339, 7674, 7043, 5384, 8832, 1564, 6831, 2183, 7567, 2347, 6286,
     4422, 5943, 4536, 4849, 7409, 6363, 4836, 9085, 4823, 9295, 3107, 8352, 1843, 7617, 2728, 5576, 6018, 2419, 7182, 1564,
     3015, 2946, 8705, 9791, 4829, 2634, 2471, 9247, 2605, 6216, 9913, 4097, 8113, 2647, 7184, 457, 2763, 368, 3175, 5298,
     4205, 3149, 4216, 5973, 3575, 2166, 8708, 5326, 9822, 1240, 3561, 6282, 171, 9918, 3042, 707, 5309, 8756, 8100, 3265,
     819, 45, 3719, 8332, 5933, 6887, 8686, 8197, 4914, 1322, 5704, 2113, 6600, 3411, 4977, 8722, 3438, 1534, 606, 4715,
     4722, 3592, 2031, 1516, 8971, 3945, 6557, 8538, 4559, 9103, 4237, 7361, 951, 752, 6968, 4708, 4585, 9914, 2428, 676,
     5134, 9152, 8727, 8988, 8239, 48, 7789, 56, 8285, 7680, 6637, 5945, 3900, 8675, 204, 102, 5670, 9353, 1195, 4235,
     9372, 2610, 7397, 9616, 1590, 9060, 8400, 5224, 5928, 9619, 9560, 4522, 7771, 6640, 605, 510, 832, 5384, 5543, 4405,
     7622, 8763, 1145, 8652, 1862, 9000, 4279, 2191, 8014, 2697, 9944, 7067, 9877, 4782, 2166, 3155, 2309, 5135, 5930, 2726,
     9329, 4008, 9015, 1153, 6031, 5482, 7016, 4972, 3704, 7323, 2546, 6151, 4522, 9843, 3426, 4470, 3597, 4650, 7289, 4332,
     9512, 5627, 9770, 5405, 8833, 5949, 9084, 5033, 6032, 8485, 4414, 2323, 9885, 8265, 740, 9688, 503, 7649, 4890, 9957,
     663, 1139, 2829, 9492, 7096, 7349, 8887, 9992, 3518, 9747, 8923, 602, 1407, 8934, 4719, 4017, 4199, 4298, 8361, 8925,
     2418, 3001, 3764, 8394, 7049, 1976, 127, 7728, 7763, 958, 6146, 225, 8182, 7783, 8784, 8831, 3606, 7036, 729, 8235,
     9951, 5735, 4431, 6490, 9490, 7118, 840, 9903, 8497, 9358, 1270, 1262, 1929, 4996, 2582, 6335, 5052, 4444, 5165, 8535,
     4404, 2672, 4585, 8436, 4607, 1548, 9502, 2268, 3508, 4930, 7087, 1388, 3952, 3281, 2241, 4640, 8848, 7060, 7035, 1166,
     8936, 9303, 468, 3016, 7998, 8491, 420, 2901, 9321, 3496, 9892, 3457, 3060, 29, 6626, 5472, 1349, 813, 7459, 2010,
     4997, 4403, 4117, 9409, 4582, 4661, 2325, 3550, 530, 139, 3971, 5534, 8966, 4994, 1117, 6385, 6933, 2412, 7288, 8695,
     8561, 6472, 8803, 8777, 5645, 5365, 511, 4330, 4413, 5369, 2495, 9348, 687, 690, 9902, 9649, 320, 9365, 5425, 3125,
     1852, 6778, 3023, 7473, 1609, 9358, 1802, 6334, 4180, 9971, 1815, 4818, 546, 8611, 6636, 7776, 3510, 2674, 2681, 2713,
     6237, 7851, 1217, 2817, 7851, 6168, 3718, 1118, 3512, 5530, 1412, 2469, 8956, 5817, 301, 6000, 4124, 9113, 781, 7969,
     9818, 7379, 8138, 4719, 3506, 2462, 8747, 2584, 5262, 9858, 8437, 8999, 2641, 8313, 3300, 2791, 5005, 6793, 6962, 8587,
     7234, 8482, 2236, 352, 1386, 9101, 3968, 7436, 7246, 6285, 1402, 7642, 2323, 115, 3726, 7714, 1378, 9285, 3490, 3031,
     170, 9169, 2427, 7904, 1098, 4093, 5246, 748, 6364, 7431, 4103, 7207, 6337, 6446, 4229, 7083, 9413, 9411, 7035, 8021,
     4252, 4502, 4408, 7565, 245, 2934, 232, 9277, 1900, 5669, 5488, 2990, 7268, 6951, 1470, 7805, 1877, 9445, 8007, 340,
     1422, 5219, 1723, 629, 9366, 1256, 4731, 8936, 3713, 9539, 7232, 1704, 475, 1244, 8572, 1221, 5223, 9667, 9378, 257,
     3941, 2995, 3281, 1061, 8621, 1548, 8435, 4315, 2657, 6548, 7116, 9449, 7293, 7067, 5738, 9921, 8438, 8287, 3531, 1065,
     1979, 3851, 4808, 613, 8819, 3066, 4670, 8988, 2254, 5766, 7573, 545, 7220, 3760, 4583, 8072, 5873, 3455, 1634, 4509,
     2314, 62, 4072, 8185, 5673, 8802, 2308, 2465, 8440, 7732, 8497, 8450, 4594, 9846, 3327, 822, 7074, 2813, 4685, 8680,
     1273, 400, 7187, 6882, 2443, 3674, 4682, 8789, 3297, 2273, 2005, 8313, 9377, 3081, 822, 2208, 1183, 6808, 7793, 332,
     2586, 3613, 2774, 6969, 8013, 8168, 8493, 523, 4056, 6580, 4397, 2786, 4030, 2846, 4051, 9590, 6192, 3355, 9299, 3338,
     748, 2429, 2308, 9720, 6285, 3390, 2031, 4718, 3094, 9263, 8180, 5117, 4571, 2284, 3413, 8816, 1284, 3580, 4341, 3396,
     5170, 8744, 7359, 8960, 630, 1260, 1482, 8506, 2729, 4524, 2811, 6920, 8539, 6086, 9833, 2581, 5701, 6671, 4548, 7361,
     7593, 7602, 5460, 6932, 7816, 5440, 8595, 3502, 3984, 7348, 7651, 4037, 3766, 972, 5853, 9835, 2349, 2545, 8587, 720,
     8520, 7631, 7982, 3581, 8757, 9640, 3783, 4426, 12, 5932, 7250, 9033, 6877, 9662, 7188, 7015, 8572, 7085, 8915, 2403,
     3757, 8980, 9441, 1397, 8951, 3119, 2229, 1526, 7775, 1380, 3544, 492, 4876, 2354, 3630, 4309, 4302, 9164, 8250, 3175,
     6332, 2502, 7227, 4257, 1636, 5597, 1585, 2229, 1526, 9577, 7570, 7196, 730, 7161, 9574, 8477, 878, 4114, 1776, 442,
     3608, 9351, 1945, 2807, 8493, 9537, 8179, 1340, 428, 440, 23, 7036, 115, 9786, 7164, 1162, 9460, 8478, 9542, 5001,
     4555, 4210, 5919, 5358, 6211, 1599, 9043, 9666, 1182, 7833, 4984, 8804, 3067, 8645, 9230, 7729, 2769, 4475, 7956, 6771,
     5161, 8408, 6717, 6828, 3098, 2667, 9236, 4347, 196, 8099, 211, 6838, 2197, 102, 9250, 3364, 4327, 200, 9471, 5986,
     8235, 5781, 4955, 5589, 4386, 6488, 9405, 6596, 1669, 9282, 3751, 7196, 7709, 4686, 8003, 2770, 2974, 6947, 9276, 6479,
     6109, 7393, 1901, 3859, 160, 3069, 2146, 5791, 6499, 6825, 1110, 7579, 9145, 4411, 4985, 7549, 4438, 2643, 309, 405,
     9894, 2172, 493, 5446, 1692, 4313, 9434, 5548, 3667, 6381, 9254, 7092, 2382, 4997, 1078, 7107, 1771, 6495, 455, 3586,
     849, 4591, 8225, 3896, 716, 5433, 919, 9695, 6315, 8619, 8185, 6943, 3266, 1626, 7893, 3055, 5609, 8212, 1948, 3137,
     7341, 8606, 3597, 8045, 6298, 5256, 267, 28, 320, 4117, 2534, 4359, 2280, 4283, 6006, 7041, 8018, 8191, 758, 9662,
     3921, 3592, 2145, 708, 6301, 1698, 6599, 422, 6548, 8106, 4525, 4243, 4073, 5577, 4948, 9888, 2859, 6881, 9923, 1329,
     9849, 9231, 547, 3274, 1107, 8534, 9501, 6160, 3016, 9011, 8842, 223, 4601, 5223, 3806, 1504, 114, 591, 202, 6627,
     8236, 8312, 2534, 5139, 4713, 6301, 2870, 3594, 8946, 8396, 4920, 6494, 3553, 4920, 2238, 7477, 3885, 4458, 2541, 4225,
     4739, 2409, 7544, 2952, 2118, 7188, 227, 7640, 5945, 2972, 8401, 4614, 9524, 3005, 6272, 6525, 5014, 7654, 2795, 6470,
     7071, 5712, 2380, 6027, 2689, 4807, 6158, 3820, 4701, 4937, 2416, 1696, 8408, 4826, 3715, 2541, 1670, 5376, 3582, 9379,
     6209, 5772, 1057, 9544, 8369, 8040, 1107, 8476, 2661, 1797, 433, 5925, 2072, 2466, 670, 3264, 5292, 6810, 2626, 9435,
     2031, 1420, 9042, 8749, 3060, 56, 3076, 5406, 1020, 7126, 1391, 5996, 4439, 9808, 560, 4467, 4316, 1134, 3516, 8989,
     827, 8974, 8086, 9944, 1508, 26, 583, 5431, 3215, 3612, 972, 8451, 1710, 2760, 610, 7824, 9714, 7567, 6675, 1957,
     9790, 5, 7979, 9455, 6120, 6524, 2080, 7835, 8002, 4043, 2820, 4921, 2867, 4720, 8003, 1969, 4484, 1213, 7072, 1358,
     6309, 7480, 4854, 6255, 943, 5209, 5287, 9173, 250, 7725, 1192, 1464, 8747, 8973, 7505, 3425, 9494, 9774, 205, 3042,
     9109, 8823, 6773, 530, 2482, 2175, 2417, 7094, 7745, 2958, 1438, 3226, 1825, 8098, 2144, 4720, 7860, 7042, 5771, 2047,
     5389, 9443, 1710, 1818, 4031, 4030, 8265, 4751, 1926, 3569, 4723, 7080, 2910, 9368, 2951, 7214, 4436, 3979, 1080, 3944,
     6227, 2526, 8662, 1292, 499, 6785, 1317, 8812, 2833, 2912, 6036, 2863, 7362, 704, 6641, 4427, 4469, 2651, 1574, 4941,
     5621, 3545, 4483, 6545, 7709, 4781, 4227, 5295, 7136, 961, 4287, 4882, 3677, 3542, 5941, 3688, 9966, 5447, 5917, 2248,
     9757, 8499, 2079, 554, 2119, 695, 5427, 2297, 4140, 2007, 648, 6621, 303, 1815, 8943, 7277, 5422, 9735, 7206, 944,
     5883, 8141, 1633, 5712, 5765, 3686, 3937, 5789, 1997, 7501, 4363, 1237, 5284, 8459, 3461, 7045, 6085, 4611, 8492, 9028,
     1900, 6455, 134, 6124, 4187, 2408, 890, 3798, 7368, 3954, 9946, 5786, 293, 5040, 5103, 3768, 4351, 8488, 1250, 855,
     2371, 14, 2649, 2290, 6026, 5009, 2842, 7152, 7901, 6921, 3938, 111, 8808, 7869, 1854, 9090, 8144, 6719, 6328, 1631,
     9031, 6256, 1933, 3142, 9203, 2876, 5639, 8398, 7210, 5592, 7908, 4218, 2164, 1966, 1667, 1498, 9228, 6439, 5010, 51,
     4433, 2546, 3084, 4119, 8648, 1493, 2478, 7982, 4866, 3707, 5718, 9370, 1629, 2712, 4301, 9852, 8693, 6140, 6423, 8300,
     5391, 5945, 3433, 9025, 2384, 7951, 5828, 6084, 2366, 5191, 2458, 8616, 8308, 7947, 3535, 2352, 6686, 4387, 38, 9181,
     1225, 6758, 688, 5262, 4, 3607, 4579, 7595, 4688, 4115, 6199, 7542, 2383, 4687, 772, 2466, 6544, 520, 4850, 5358,
     2205, 2564, 7788, 8313, 6711, 6350, 5322, 9603, 6006, 9171, 9746, 7914, 1886, 3875, 609, 6321, 6973, 9378, 8180, 8736,
     1106, 864, 4506, 8590, 6571, 6552, 2448, 9184, 517, 1297, 5878, 1812, 918, 7815, 3312, 496, 8563, 8412, 8516, 6529,
     2235, 9809, 5420, 6986, 9893, 7380, 5656, 8574, 1795, 8158, 2543, 3735, 9748, 9386, 3263, 8704, 8266, 9399, 98, 1051,
     2696, 9799, 2259, 3905, 5586, 1040, 4524, 9492, 5564, 6375, 594, 1590, 5424, 5252, 7134, 7300, 7759, 2514, 3313, 6377,
     3405, 5346, 9453, 1641, 8282, 49, 5853, 5099, 2307, 818, 9728, 8528, 344, 1598, 5646, 1783, 3453, 8061, 5961, 8536,
     2011, 2229, 922, 2336, 4973, 9137, 6192, 8390, 277, 4546, 9541, 1660, 8506, 6782, 5422, 2244, 4174, 5112, 8509, 4594,
     5625, 8129, 5695, 4722, 6918, 5960, 4085, 7871, 4261, 708, 6002, 67, 9995, 3099, 9694, 7621, 2068, 6912, 5181, 4102,
     6953, 4663, 7429, 7500, 3630, 2823, 3068, 9703, 3307, 7324, 409, 2718, 5322, 1009, 9012, 4876, 5710, 8327, 7217, 900,
     6217, 527, 177, 4230, 4925, 4562, 9946, 5074, 9119, 731, 2909, 5280, 9741, 1261, 5730, 2268, 3502, 4436, 5239, 5299,
     6684, 4348, 1699, 1040, 73, 8653, 7261, 5697, 3637, 1637, 6514, 2674, 7202, 4306, 5343, 7416, 854, 48, 2391, 8935,
     7497, 1566, 6259, 7307, 999, 1153, 2317, 6749, 6060, 1708, 5551, 6983, 34, 140, 6417, 3919, 4283, 1183, 4907, 2086,
     3373, 5032, 6037, 1006, 3917, 4165, 5754, 2934, 2625, 9491, 5060, 3236, 2550, 9118, 1227, 764, 6169, 36, 1434, 3004,
     6998, 1275, 9135, 3635, 4196, 7050, 2817, 1201, 7969, 6654, 5122, 2690, 9424, 9452, 1991, 1, 9702, 4672, 5097, 3829,
     7446, 9954, 3415, 9914, 150, 5082, 1757, 4191, 3502, 6628, 7898, 118, 4414, 6634, 435, 239, 888, 5710, 7166, 3486,
     9721, 4478, 9130, 2, 3866, 4294, 8703, 8789, 6142, 5335, 7153, 2312, 6572, 6704, 8789, 2598, 5405, 7670, 8744, 3690,
     8170, 4819, 9432, 5042, 8779, 7059, 1144, 6149, 4372, 4769, 2059, 4300, 5183, 2013, 8686, 2915, 5238, 9539, 3003, 6835,
     9176, 1849, 4277, 347, 7379, 7605, 8882, 8924, 1564, 8703, 556, 4216, 3680, 6970, 9518, 360, 6255, 982, 3528, 7018,
     4384, 6227, 5284, 7616, 5495, 1075, 9901, 7579, 7828, 1983, 7995, 1198, 6578, 4271, 6593, 782, 8711, 602, 8672, 1640,
     4881, 7658, 2385, 3161, 7940, 7965, 2500, 849, 8666, 9401, 1147, 281, 186, 4093, 4156, 9745, 7162, 2509, 157, 5059,
     6461, 9177, 9558, 6497, 6733, 4979, 1083, 1352, 1743, 3939, 6975, 1452, 4132, 4218, 3879, 5472, 7304, 3752, 5005, 3086,
     3846, 2689, 8411, 6600, 3123, 444, 8212, 9368, 7711, 4483, 1762, 4492, 3113, 9858, 6389, 4581, 9817, 49, 8972, 5214,
     6947, 2499, 9304, 6112, 6638, 986, 7104, 1583, 2820, 3774, 5609, 4476, 6990, 3917, 1124, 6663, 7227, 3258, 8714, 9391,
     7080, 3370, 6932, 663, 360, 8574, 8457, 8096, 9730, 7348, 123, 5612, 9021, 1821, 1983, 768, 253, 8981, 5076, 2326,
     532, 6150, 4471, 472, 3401, 7491, 7185, 3213, 6230, 6113, 6402, 2827, 3001, 2449, 8328, 6573, 1324, 1514, 2809, 3204,
     6640, 8602, 2432, 3378, 6437, 3273, 2003, 2966, 8029, 8563, 9366, 6418, 4464, 7819, 7762, 2061, 2406, 390, 3072, 9169,
     9628, 6781, 7682, 4017, 2398, 1967, 125, 5375, 6899, 8030, 4018, 6052, 4682, 4271, 7698, 779, 7628, 832, 8704, 7236,
     4838, 7243, 2487, 1057, 1896, 9753, 4969, 7866, 5903, 3598, 9841, 9449, 6643, 2975, 1692, 1849, 7075, 1305, 783, 8891,
     8404, 594, 4928, 9181, 783, 3282, 4685, 146, 5469, 7065, 5410, 9790, 7822, 4662, 10, 4308, 1440, 5182, 1245, 5993,
     7045, 8742, 6197, 6064, 7640, 1620, 611, 194, 2513, 6219, 6277, 3291, 5999, 4473, 60, 9567, 5996, 2134, 5988, 4663,
     7305, 7254, 8845, 6289, 7555, 2833, 7440, 287, 3270, 8516, 6569, 1206, 9793, 1005, 9802, 3595, 6558, 7930, 5359, 7652,
     5951, 8577, 7304, 9019, 1586, 5987, 267, 2662, 9844, 5162, 7625, 579, 8005, 7513, 6313, 97, 7247, 6017, 2270, 2778,
     5896, 6372, 2808, 5125, 4889, 5113, 1618, 4450, 401, 7496, 489, 1966, 6645, 2524, 3822, 7680, 5404, 3340, 2785, 6674,
     3502, 8375, 256, 5748, 7661, 4194, 6147, 414, 1580, 2369, 368, 6641, 1574, 8392, 3969, 2164, 7883, 3151, 5047, 8734,
     163, 8340, 6071, 8542, 6158, 6029, 2705, 3492, 9550, 4327, 8777, 3577, 7488, 4968, 3945, 3695, 473, 5360, 6938, 50,
     2331, 3619, 3842, 8924, 9057, 6536, 4880, 8251, 6020, 1781, 8053, 730, 7346, 7679, 5957, 7623, 2966, 1835, 77, 4893,
     1650, 2655, 2457, 9655, 5260, 1542, 1058, 6321, 6606, 1454, 6230, 12, 1005, 4341, 8, 3885, 9360, 5626, 7670, 4947,
     4322, 7084, 6413, 8791, 588, 1383, 2464, 249, 3631, 2949, 9402, 4809, 474, 1094, 3309, 523, 9195, 1699, 6487, 5234,
     4162, 6021, 6377, 8698, 8807, 5551, 8530, 3321, 3047, 5711, 6819, 5581, 7073, 3001, 3933, 4925, 8963, 4602, 5002, 5595,
     6567, 9839, 1515, 5191, 7769, 7769, 2749, 4373, 184, 6170, 8141, 565, 7640, 8149, 3984, 5065, 475, 1898, 2212, 347,
     7432, 4201, 1407, 9107, 5316, 1481, 3288, 3503, 8851, 1373, 3266, 199, 4030, 928, 2935, 5789, 7404, 1035, 6364, 8461,
     3123, 4555, 3461, 8939, 9656, 7969, 5322, 3894, 395, 7495, 6451, 7262, 1114, 7510, 372, 9797, 1506, 2666, 8778, 8650,
     5475, 3967, 5066, 757, 2351, 4950, 170, 8884, 6590, 8748, 1227, 9222, 1275, 9658, 6672, 758, 8710, 7264, 8981, 6415,
     7450, 5924, 4071, 840, 3177, 3644, 5093, 4158, 9180, 372, 8923, 522, 1790, 6354, 8030, 7918, 3367, 4932, 8658, 7878,
     5656, 7029, 3927, 5191, 4926, 7085, 2183, 2307, 4239, 3702, 2222, 4215, 8157, 8359, 600, 5760, 5565, 9948, 8766, 5476,
     7583, 4780, 4526, 6932, 7073, 8048, 7599, 2277, 8809, 1316, 9616, 1500, 5689, 7394, 2143, 4537, 1548, 4446, 7999, 6794,
     6920, 7955, 2503, 4753, 525, 1763, 9563, 4306, 8283, 1044, 3884, 5552, 3374, 202, 7014, 4756, 197, 854, 1810, 3010,
     1208, 1793, 9575, 4833, 1142, 3525, 9133, 6817, 6146, 7791, 7492, 2973, 9693, 7016, 6755, 1222, 9736, 9374, 4795, 5397,
     9272, 1882, 6875, 4340, 1740, 6096, 1418, 377, 6553, 7389, 5811, 5608, 5004, 5644, 498, 1046, 26, 4189, 3990, 172,
     2902, 6774, 5251, 859, 7684, 4747, 9137, 9316, 9875, 3542, 2358, 5550, 4549, 5544, 4293, 3123, 5497, 191, 6246, 3593,
     1875, 6644, 6684, 2561, 4570, 8781, 5178, 998, 7784, 8867, 4917, 4712, 4187, 4426, 2784, 8700, 4546, 697, 2361, 9340,
     4457, 5393, 2598, 134, 6470, 6663, 1310, 9180, 4471, 8369, 7499, 9414, 4264, 4861, 3752, 2614, 2173, 1707, 8542, 2912,
     5881, 288, 7831, 8886, 2659, 9529, 7606, 5484, 7059, 5273, 3432, 7204, 5002, 5775, 2520, 7732, 3878, 3390, 587, 3181,
     6371, 6023, 9816, 988, 6918, 3532, 2283, 4324, 1111, 1065, 368, 7840, 1043, 2227, 4718, 5624, 4788, 7505, 2861, 7495,
     8919, 6684, 777, 2515, 498, 6757, 1263, 7385, 2643, 8342, 7347, 3620, 6361, 1496, 2165, 3389, 3330, 6323, 3750, 9421,
     6085, 4790, 9314, 8642, 9943, 1449, 3217, 6541, 7653, 8321, 2490, 2430, 7043, 528, 2797, 6695, 6873, 5893, 860, 8444,
     1920, 1485, 9223, 9686, 4697, 888, 1532, 2099, 8991, 9046, 6301, 9382, 2382, 3393, 5685, 6421, 2108, 7601, 1906, 9977,
     2698, 9, 8139, 9772, 1270, 9135, 9051, 4668, 4728, 6816, 2921, 6548, 6898, 9463, 2666, 4148, 4493, 5600, 8965, 5592,
     1428, 8946, 6002, 8378, 6127, 6802, 2374, 8680, 9427, 4738, 1340, 1820, 997, 6606, 2717, 5178, 2431, 4980, 2389, 3338,
     3936, 3743, 3188, 7386, 3025, 6327, 5220, 8788, 9901, 6927, 9873, 836, 195, 1970, 9297, 1557, 4878, 6653, 2254, 9183,
     3695, 6832, 9229, 4369, 4174, 971, 230, 5934, 7873, 3450, 1842, 3977, 3038, 8658, 731, 1826, 6146, 8890, 288, 5080,
     3344, 3394, 7218, 3820, 1492, 91, 6547, 6028, 4218, 4769, 4533, 6482, 2453, 8666, 1844, 6719, 5814, 6770, 2717, 2116,
     1809, 9579, 702, 7249, 4896, 4774, 3940, 2852, 4576, 1561, 3640, 1624, 7614, 1409, 7150, 5079, 5470, 3081, 231, 2254,
     4061, 5352, 8802, 9405, 5675, 8918, 9924, 7315, 4428, 6821, 2521, 6307, 6178, 4819, 5626, 2876, 9404, 4846, 5022, 1883,
     1063, 1081, 3564, 8770, 7901, 7921, 7453, 8068, 8349, 9978, 3441, 862, 2092, 313, 6337, 5962, 5801, 653, 7819, 1495,
     6671, 8442, 365, 3234, 4356, 5447, 8055, 8479, 9979, 1825, 248, 3272, 2405, 4119, 1649, 8622, 8795, 5962, 8048, 8003,
     1237, 5957, 9452, 5886, 5417, 4781, 2225, 2061, 3350, 1350, 1956, 1368, 4315, 2999, 8069, 8207, 6183, 6835, 8437, 9468,
     2880, 1145, 3361, 2736, 6601, 5185, 1651, 4883, 6640, 8634, 7855, 2632, 6808, 2381, 7924, 1136, 5091, 2180, 4475, 3362,
     1948, 7677, 1357, 1905, 8442, 2484, 5170, 8283, 8360, 7756, 9096, 2532, 8348, 9529, 3656, 6890, 3066, 4389, 8150, 4688,
     6304, 737, 64, 2664, 9291, 2836, 3287, 8319, 5228, 3760, 4608, 7311, 514, 4372, 8015, 2206, 6717, 844, 2677, 354,
     2163, 1209, 1543, 912, 5507, 9439, 5118, 4635, 1510, 4909, 2203, 8622, 9376, 9900, 4579, 720, 3073, 2115, 2001, 4381,
     4880, 4702, 4004, 96, 1911, 1640, 1352, 6076, 5467, 5670, 7101, 7767, 2531, 4622, 9747, 618, 5572, 2123, 8361, 7549,
     255, 7461, 4223, 370, 3305, 1419, 3399, 1650, 9335, 722, 8898, 6253, 939, 3707, 568, 6445, 7954, 1120, 9082, 7162,
     7698, 8755, 6442, 3597, 46, 4494, 5943, 4213, 2456, 9170, 2446, 231, 1836, 9581, 4303, 607, 8498, 8230, 7579, 4893,
     1403, 1353, 8726, 9016, 7973, 2470, 2271, 631, 8209, 3032, 590, 5944, 3282, 996, 2275, 6833, 7231, 9347, 270, 1289,
     3587, 1330, 3022, 2393, 2382, 9090, 6427, 4304, 8860, 4319, 4270, 6812, 7391, 2961, 3498, 5661, 8818, 4492, 4390, 6370,
     3127, 5052, 8608, 216, 7587, 1529, 8954, 6970, 422, 6104, 6519, 581, 6577, 6280, 3667, 4156, 7191, 9727, 4830, 6454,
     892, 2296, 1307, 2685, 5771, 456, 6819, 6943, 7280, 2754, 1409, 6275, 1626, 4732, 9280, 7657, 6165, 2656, 4670, 2901,
     6829, 316, 6855, 4594, 6426, 5556, 3335, 6658, 3700, 2121, 8896, 1781, 8147, 8582, 6661, 9667, 8117, 1403, 3179, 6642,
     893, 6381, 6151, 5208, 2430, 3013, 3667, 160, 4008, 8431, 903, 1340, 2532, 9373, 840, 9294, 8656, 6287, 1261, 6504,
     8228, 7903, 6136, 2488, 6276, 6958, 1185, 4822, 8413, 221, 2257, 4279, 9311, 2603, 8416, 3828, 1696, 118, 2379, 7333,
     2547, 8651, 9678, 3748, 4214, 420, 5835, 3195, 2360, 1952, 7326, 3236, 7803, 5200, 5707, 6110, 8272, 8564, 4175, 3153,
     271, 9539, 489, 3098, 3028, 8359, 8076, 4959, 7561, 4313, 6865, 6603, 9116, 9527, 5867, 3131, 3982, 2451, 7384, 3495,
     1612, 914, 3348, 3025, 9593, 8280, 3718, 5814, 6965, 1302, 3483, 527, 1199, 9562, 2252, 1427, 6667, 717, 1672, 1774,
     4625, 9941, 872, 7653, 6800, 5041, 7235, 7178, 11, 3689, 681, 858, 1078, 2266, 3377, 9492, 8572, 3959, 4652, 3255,
     7270, 1145, 5683, 1174, 8437, 1165, 9237, 6190, 8989, 558, 5851, 3171, 8954, 8487, 8704, 7322, 9467, 6286, 8403, 4247,
     112, 4945, 9244, 8851, 1703, 3106, 389, 2605, 8579, 3346, 1761, 8474, 8623, 3564, 4151, 727, 7215, 690, 198, 3048,
     6827, 4010, 9096, 4681, 8725, 8168, 3202, 7264, 2712, 1055, 9704, 6276, 479, 5759, 6632, 6143, 9974, 1428, 1114, 3711,
     7688, 2559, 5727, 1203, 7660, 7859, 8875, 7856, 9611, 7660, 2187, 7829, 5952, 5007, 4318, 6705, 8311, 7665, 8694, 5111,
     6351, 9454, 6803, 6837, 3940, 173, 9675, 7432, 7893, 3008, 9843, 2170, 4975, 760, 4403, 2732, 3814, 4167, 6615, 5046,
     9813, 9581, 337, 9831, 6389, 8813, 4161, 1796, 8834, 9442, 1023, 9300, 8443, 3192, 5730, 3153, 9271, 573, 5150, 1584,
     8519, 5682, 4529, 4558, 8861, 8411, 2663, 434, 9976, 2948, 6865, 1518, 4314, 5154, 5515, 6304, 5760, 446, 2976, 5006,
     8756, 6075, 6354, 186, 8248, 2397, 6003, 5834, 6101, 5471, 3635, 5526, 3165, 9686, 6150, 3689, 8286, 9287, 484, 8417,
     8896, 596, 4492, 2815, 8694, 7310, 1881, 9617, 5110, 7411, 7247, 3416, 5013, 2839, 1131, 6942, 7521, 4103, 139, 85,
     5600, 270, 5062, 2549, 5073, 1781, 6404, 1864, 5048, 9327, 7750, 1874, 7355, 2952, 4066, 1887, 186, 8595, 4726, 1528,
     9213, 5523, 5918, 3469, 5192, 5624, 2570, 93, 8279, 2254, 988, 836, 5457, 6288, 21, 5369, 9136, 354, 2937, 3696,
     7044, 9352, 3644, 3939, 5024, 380, 290, 4814, 2546, 1596, 7321, 370, 9973, 9821, 5222, 8120, 688, 1667, 5365, 369,
     9438, 6182, 7224, 3315, 1291, 1472, 1503, 8164, 8535, 6202, 9601, 3107, 6722, 227, 2094, 8768, 252, 4873, 447, 5885,
     2441, 6004, 2740, 1762, 2406, 405, 5969, 8295, 4560, 912, 8281, 1255, 960, 5835, 9658, 5986, 2773, 3326, 8074, 4750,
     6637, 2021, 7429, 458, 468, 2470, 4123, 9545, 4576, 6701, 6716, 2372, 9306, 2878, 5792, 1534, 3467, 952, 5453, 3964,
     9838, 2983, 7987, 4562, 5034, 305, 991, 1113, 3126, 6769, 7064, 3592, 4731, 1995, 8652, 1328, 114, 4823, 3970, 8987,
     3191, 9290, 5965, 1948, 5744, 4411, 150, 1638, 2826, 7490, 5906, 708, 9112, 768, 1032, 5967, 7892, 6193, 1342, 5048,
     7960, 4159, 1326, 6978, 4552, 428, 2099, 1007, 7030, 3775, 8135, 1710, 8718, 7958, 6887, 273, 6056, 3749, 1010, 4490,
     9813, 8892, 809, 9638, 959, 7159, 8565, 9910, 8549, 9228, 3407, 3387, 6069, 1286, 3061, 7289, 4937, 3227, 3935, 8837,
     4689, 6688, 6440, 3311, 9650, 9586, 9984, 8363, 4720, 7008, 2240, 4832, 8553, 6937, 4612, 3508, 8692, 3487, 5408, 8787,
     9053, 6282, 4956, 201, 9872, 8383, 728, 8196, 5804, 6381, 5549, 8841, 5598, 6857, 7070, 5183, 9762, 3910, 6082, 9769,
     2076, 3626, 4910, 876, 100, 4904, 1267, 5979, 7983, 6981, 1708, 8674, 663, 2514, 7864, 5656, 9738, 316, 856, 6448,
     2552, 2880, 2604, 9589, 4235, 9694, 86, 7925, 116, 3644, 4280, 4909, 7441, 6399, 6602, 8953, 7437, 7674, 1000, 6497,
     3474, 5423, 5466, 8623, 547, 1507, 3444, 1991, 4533, 1375, 5994, 2701, 2409, 6100, 6784, 8465, 2691, 6728, 8425, 3106,
     729, 4440, 7295, 465, 9799, 5662, 8464, 3139, 2111, 4075, 5987, 7125, 379, 5030, 2014, 16, 5578, 6660, 1416, 469,
     4613, 2048, 5050, 6801, 6781, 5896, 1714, 4321, 356, 6408, 9032, 2095, 8403, 6637, 781, 3116, 2378, 6709, 5508, 8291,
     1109, 9423, 3374, 6816, 1679, 9842, 4348, 5481, 9929, 1366, 2987, 9904, 3185, 9504, 2240, 7269, 504, 2904, 4479, 3747,
     9916, 6608, 9693, 3621, 7677, 343, 9060, 5560, 9264, 5412, 5332, 7330, 1501, 7860, 1170, 1115, 2133, 1219, 5781, 6859,
     7342, 8582, 8185, 8707, 6210, 364, 2161, 6428, 2751, 7055, 2431, 1410, 2435, 9530, 6179, 354, 7960, 6052, 8421, 7828,
     343, 7638, 2223, 6324, 145, 5689, 1141, 8648, 7178, 2912, 2864, 2241, 512, 4061, 6830, 8108, 3967, 5389, 9359, 8984,
     6150, 5651, 1137, 3555, 6753, 1502, 5129, 267, 8283, 9306, 4234, 1591, 4116, 6616, 1952, 8157, 6804, 9696, 8060, 4966,
     6931, 3780, 4097, 8274, 9758, 9608, 5793, 7960, 5949, 3349, 5479, 5801, 3668, 102, 6285, 6303, 122, 1944, 6722, 7110,
     7732, 8517, 3104, 5647, 889, 457, 6982, 2823, 67, 5261, 6658, 3526, 7604, 5994, 9042, 1962, 5955, 9065, 3312, 5617,
     2523, 1413, 8656, 4220, 592, 2738, 8832, 8085, 8623, 9199, 5731, 8856, 7004, 9034, 2431, 5337, 7700, 2254, 9136, 7208,
     7694, 9171, 5524, 4785, 2765, 6759, 1915, 1057, 6791, 6159, 3439, 4274, 6741, 9661, 3102, 9036, 4445, 168, 6031, 7205,
     8461, 4942, 6906, 3673, 9071, 4237, 8005, 8603, 9430, 2968, 2182, 6740, 6816, 6804, 2581, 9207, 2977, 2190, 1732, 7522,
     9828, 9698, 1224, 4413, 2838, 5863, 3756, 1574, 9022, 9628, 5308, 5179, 4301, 3276, 621, 7513, 6232, 4512, 4797, 7352,
     9066, 1555, 4648, 6993, 1832, 4791, 3120, 2201, 5926, 7726, 6155, 8605, 3928, 4501, 3699, 3723, 4231, 2821, 6883, 9198,
     3528, 2265, 3126, 2632, 605, 2758, 2343, 7373, 5170, 2148, 1944, 7914, 6452, 6631, 2801, 7986, 3872, 2323, 8635, 2139,
     8003, 9635, 2088, 9025, 1719, 9878, 4339, 1007, 6276, 9158, 2336, 1068, 2563, 1448, 3162, 4722, 4563, 7358, 2927, 8520,
     766, 7656, 9173, 9005, 8308, 8707, 6365, 949, 586, 1749, 2280, 5543, 4313, 8166, 614, 4237, 4992, 7270, 3918, 9462,
     5960, 3809, 7573, 7741, 1517, 4857, 5325, 4606, 2647, 4847, 4548, 8934, 2014, 8589, 4926, 128, 8454, 4975, 9092, 7452,
     1810, 1551, 9405, 622, 6333, 1720, 9988, 8794, 6962, 965, 1210, 2767, 325, 6979, 812, 8374, 9898, 4066, 295, 966,
     4571, 1044, 8190, 9599, 1031, 8244, 7521, 3905, 6240, 18, 4870, 4645, 2087, 6167, 4721, 471, 9270, 3633, 1256, 9229,
     3067, 7886, 4024, 7301, 6135, 7082, 2669, 9525, 851, 5432, 9860, 8721, 9128, 8492, 7430, 8385, 378, 8748, 7708, 5317,
     1563, 4, 1522, 8518, 5108, 7447, 5152, 8402, 9551, 6130, 8555, 210, 1641, 4967, 1088, 9690, 263, 3534, 4304, 5324,
     8281, 4840, 1685, 8209, 5867, 9766, 8041, 4774, 8002, 3943, 2246, 4726, 4250, 9218, 9318, 8933, 4433, 738, 4803, 8112,
     1298, 7346, 2728, 5822, 8952, 6150, 4829, 7306, 6512, 5969, 4343, 5882, 1995, 7965, 739, 6226, 7192, 9559, 4353, 289,
     7393, 6634, 2742, 3205, 9292, 2762, 6564, 6894, 6319, 209, 1242, 385, 7866, 2116, 7661, 5730, 6469, 3509, 8889, 9569,
     2502, 7158, 3119, 2264, 3641, 3055, 5623, 9336, 1719, 2679, 754, 7734, 8681, 6097, 5310, 2063, 8842, 4245, 4129, 1519,
     2368, 3662, 5047, 6986, 3683, 5148, 9480, 3837, 2557, 7950, 6236, 5104, 3882, 8811, 3730, 4648, 6181, 1573, 8432, 2044,
     7457, 8742, 9097, 757, 2948, 7208, 2172, 1167, 7960, 6150, 6134, 5307, 9525, 9777, 9838, 200, 1506, 7313, 7603, 6977,
     574, 5459, 8772, 5649, 6647, 7153, 3559, 324, 9334, 8746, 3965, 6949, 8336, 957, 1036, 2649, 8015, 5180, 5622, 8082,
     3390, 2277, 4074, 3180, 7174, 5360, 461, 2616, 5380, 346, 1771, 5151, 4809, 6895, 3995, 3183, 2038, 7640, 2623, 5094,
     4866, 9098, 781, 667, 7680, 2094, 4704, 8170, 9510, 9918, 282, 845, 4533, 7093, 5644, 2281, 6903, 2338, 1291, 9327,
     8176, 8926, 7042, 1209, 9934, 4180, 4096, 8655, 5588, 3813, 3499, 5254, 9400, 6031, 1729, 4559, 4740, 5549, 8931, 2407,
     8934, 6472, 9653, 2801, 8632, 927, 4407, 3185, 654, 4628, 1950, 8629, 443, 1852, 5621, 9088, 9462, 9844, 3965, 9580,
     8535, 2646, 7322, 4931, 3818, 9671, 8124, 4556, 6246, 7226, 8003, 7992, 2677, 4556, 8723, 8771, 4601, 3726, 1871, 9738,
     8305, 2358, 659, 2428, 9898, 6486, 1475, 3698, 2666, 2273, 8050, 4591, 9992, 3539, 528, 6570, 8935, 2861, 9983, 5589,
     4290, 6647, 8377, 8603, 3520, 2437, 9440, 9243, 4395, 7041, 9013, 8650, 2754, 1349, 5295, 717, 8431, 8048, 6643, 3257,
     572, 2897, 2031, 1043, 6054, 7562, 8886, 2688, 4623, 7905, 8637, 8153, 6817, 2606, 1286, 4959, 6196, 9296, 443, 1528,
     4478, 2860, 3784, 881, 9180, 7142, 8330, 9114, 2156, 2264, 7947, 2035, 9358, 670, 9860, 4022, 9878, 6470, 5468, 6362,
     2846, 4757, 7763, 8792, 6893, 3009, 2053, 8839, 8536, 1391, 3312, 2635, 2809, 961, 1687, 6530, 930, 1394, 3697, 4370,
     9772, 2364, 1694, 3035, 6569, 1774, 7446, 5496, 4284, 964, 3276, 889, 4745, 2682, 3140, 3072, 8156, 199, 830, 1209,
     8034, 2505, 8015, 4465, 5932, 5152, 2585, 5446, 3141, 3534, 1789, 3494, 6299, 4067, 3629, 1712, 4165, 5893, 1177, 9182,
     4835, 8100, 4873, 2914, 1230, 3204, 4267, 618, 4709, 9536, 1397, 9962, 9743, 7737, 2667, 3710, 1601, 4247, 5305, 2108,
     240, 5279, 2094, 745, 7629, 9357, 2424, 4569, 7706, 9710, 1606, 3281, 8883, 3945, 1101, 5387, 9890, 5801, 9520, 9366,
     8410, 2952, 7658, 6457, 8356, 2187, 4408, 692, 1083, 2269, 8139, 3798, 8404, 6093, 6071, 4804, 5692, 7081, 5959, 7370,
     3044, 7512, 4720, 8891, 5056, 5564, 3834, 3170, 9064, 6921, 8180, 6223, 8196, 8913, 5318, 2345, 3682, 3719, 9861, 4903,
     9851, 6798, 661, 5043, 5268, 2394, 1683, 8694, 1308, 3114, 1904, 7815, 9848, 7, 3278, 2091, 7164, 1397, 1909, 545,
     2253, 8607, 2609, 1669, 9403, 3032, 1655, 3157, 2052, 722, 6240, 9026, 2733, 5081, 4764, 8981, 7439, 3246, 4208, 2682,
     7095, 2335, 7950, 2434, 6725, 7250, 6718, 8190, 4475, 4486, 3805, 6225, 3494, 339, 6971, 4403, 8046, 6862, 9642, 5009,
     503, 5412, 9357, 7701, 9541, 1920, 2075, 6419, 1015, 1358, 6371, 4637, 674, 422, 9512, 8855, 9025, 3713, 1654, 2404,
     5482, 3200, 8760, 4321, 8673, 9277, 5259, 8378, 1053, 7342, 7352, 8253, 5774, 9504, 4578, 9372, 4712, 3318, 9225, 585,
     6200, 3270, 7177, 2059, 7941, 8112, 8868, 6789, 7659, 6618, 3819, 1440, 8223, 3043, 9119, 3051, 367, 4347, 3858, 3204,
     8320, 2682, 8323, 6058, 2383, 9270, 9451, 7285, 7960, 4032, 1689, 3141, 3372, 7251, 2214, 4682, 8916, 7731, 4557, 8453,
     4746, 1505, 8289, 6500, 4838, 9662, 5823, 2744, 9002, 9481, 898, 8319, 6703, 2291, 7304, 6561, 1379, 8638, 145, 8110,
     577, 2185, 9498, 2619, 990, 1845, 4245, 9515, 8208, 1956, 6755, 1585, 4496, 6090, 7150, 7135, 4217, 7142, 949, 6925,
     3664, 9459, 4297, 3773, 3376, 4351, 3793, 2297, 4490, 6461, 5508, 6562, 3216, 9512, 5911, 2799, 6757, 8525, 1996, 1619,
     844, 8693, 9682, 9520, 749, 3632, 6658, 7650, 7402, 1048, 8886, 2355, 3034, 1762, 1139, 7223, 7816, 4947, 1563, 779,
     4120, 7172, 3193, 4434, 9786, 4988, 4351, 5632, 368, 1307, 5375, 8135, 5689, 4085, 6150, 3007, 118, 8208, 4376, 731,
     7896, 4897, 7365, 6464, 6983, 3757, 7957, 6975, 329, 8393, 5573, 8845, 7914, 129, 1714, 4164, 6947, 9194, 3066, 4190,
     7448, 101, 4855, 4498, 3612, 7487, 8577, 6662, 7061, 4627, 5276, 4322, 5483, 1823, 2681, 4179, 8970, 2946, 7659, 1569,
     9248, 5582, 6766, 2615, 186, 979, 2881, 953, 171, 4375, 5185, 162, 8762, 6182, 6489, 6756, 2877, 8915, 2190, 4532,
     42, 4765, 2993, 2469, 2916, 1056, 6968, 8723, 3218, 8227, 6722, 3061, 5277, 8693, 7624, 124, 8472, 5346, 5364, 607,
     4871, 3448, 9933, 1736, 151, 1656, 3560, 8945, 3683, 6337, 8021, 4952, 789, 1094, 1575, 8762, 5493, 6721, 9660, 1936,
     2633, 7226, 9777, 3060, 2426, 8990, 1371, 2033, 3739, 7319, 7850, 3892, 3463, 9520, 7244, 3088, 4230, 7510, 1951, 3313,
     9077, 1325, 3084, 7606, 3932, 5989, 2862, 2989, 2380, 6464, 5242, 211, 8433, 531, 2262, 8339, 9225, 4456, 7326, 2445,
     9970, 9739, 5347, 4937, 7519, 4870, 3932, 9352, 4214, 2388, 8646, 2843, 9431, 8402, 7460, 447, 4866, 1483, 9751, 6202,
     3728, 1411, 8810, 4153, 7031, 9206, 5511, 5369, 6696, 961, 6326, 4809, 5492, 47, 2299, 6899, 4471, 3113, 5085, 999,
     5875, 5002, 2626, 875, 1638, 4976, 3821, 6313, 7862, 1647, 4112, 3021, 5531, 5481, 5256, 4853, 9501, 3823, 5767, 8839,
     7945, 4226, 3843, 1861, 3585, 735, 8752, 2902, 2059, 8434, 2319, 4103, 3708, 8746, 196, 6671, 9051, 2459, 5226, 9488,
     1824, 3633, 5977, 2828, 1142, 3272, 7656, 3709, 9947, 2179, 5361, 6618, 3981, 7350, 9772, 3687, 6510, 8795, 1636, 8005,
     3454, 3104, 2750, 9522, 3211, 7848, 9116, 9528, 3625, 5832, 2330, 9807, 3878, 8456, 3194, 4019, 5513, 9722, 4332, 8049,
     2625, 3760, 4518, 8455, 508, 1632, 4425, 3731, 5433, 9802, 2587, 593, 4344, 1105, 257, 6408, 6188, 1759, 364, 976,
     7295, 2859, 8214, 2233, 791, 5771, 8397, 2957, 1175, 2440, 5156, 8668, 3683, 7057, 94, 5109, 2194, 8717, 7829, 5341,
     2660, 4259, 8586, 8412, 5791, 4022, 679, 4270, 531, 6648, 9923, 3624, 9165, 5125, 7580, 1168, 4281, 1519, 8803, 6236,
     4787, 4647, 5341, 4524, 8041, 8203, 5409, 7460, 1007, 1358, 2706, 9609, 2341, 8081, 1547, 8749, 3602, 4773, 2594, 9036,
     6709, 8661, 5924, 8301, 5697, 2717, 2799, 7227, 8131, 3327, 4213, 7398, 1888, 8211, 1967, 2432, 2759, 9773, 2786, 5069,
     9209, 3196, 1304, 6658, 71, 5780, 4152, 3970, 8910, 5362, 3637, 3600, 3595, 9400, 5685, 9949, 7211, 4841, 7861, 9240,
     3234, 9350, 376, 1810, 7114, 7735, 7189, 3138, 5176, 5453, 6806, 3959, 9233, 1767, 5630, 8299, 4568, 5848, 59, 89,
     6643, 4273, 8349, 1920, 8581, 5918, 8073, 8227, 2328, 4911, 6246, 8966, 73, 4873, 3305, 557, 8044, 9442, 7352, 4455,
     6281, 2782, 3669, 9616, 2442, 1166, 3987, 3643, 3091, 5383, 1340, 102, 1648, 2812, 428, 8070, 8694, 9440, 5444, 7427,
     8546, 9080, 3704, 6538, 1253, 9152, 4402, 1340, 1851, 9478, 9430, 1499, 1836, 1788, 1071, 9167, 1712, 7275, 4815, 8225,
     3838, 1033, 7736, 3606, 43, 1953, 8532, 9353, 1098, 607, 3970, 4740, 4317, 1052, 8105, 9450, 5665, 5135, 3479, 9020,
     6115, 6459, 4172, 5230, 3792, 7423, 2412, 1736, 7027, 4930, 1068, 2941, 8477, 3677, 5704, 7027, 8865, 6147, 8073, 4238,
     4019, 3109, 8561, 6489, 458, 3726, 6872, 7889, 8986, 2396, 2008, 7930, 9083, 8063, 869, 5292, 459, 4189, 7217, 1450,
     7781, 2752, 5765, 6266, 1105, 2943, 2335, 2151, 261, 390, 5698, 5644, 4414, 2127, 8460, 6327, 7918, 8326, 7232, 5364,
     3676, 7719, 6699, 3851, 7192, 2919, 4931, 5224, 7381, 7082, 4810, 7795, 3592, 4142, 3647, 4831, 6287, 3934, 5224, 5486,
     1176, 4241, 8420, 6376, 8551, 5988, 7081, 9264, 3280, 9022, 456, 8626, 7903, 7488, 3081, 8238, 3864, 1256, 6684, 1097,
     9635, 3245, 4358, 7061, 6521, 6224, 6395, 7688, 1440, 7250, 4305, 4297, 4084, 667, 1604, 3819, 4339, 7213, 2993, 9544,
     2612, 8626, 7570, 5497, 6120, 656, 1467, 4512, 8528, 5157, 7213, 7467, 2264, 4834, 9062, 5086, 6655, 8218, 4085, 9500,
     5835, 2829, 5834, 6841, 3090, 8264, 7433, 2671, 7643, 1374, 6606, 5436, 6983, 6650, 7055, 3562, 36, 4055, 7324, 6460,
     1700, 1619, 9588, 1558, 7967, 2550, 8445, 5490, 4935, 2885, 6117, 6150, 8268, 567, 5940, 328, 7687, 529, 8685, 1956,
     6445, 2079, 8241, 9424, 791, 7354, 5993, 3144, 7752, 3220, 6817, 2742, 7278, 2873, 6777, 6793, 4046, 1666, 3549, 2868,
     4706, 6825, 2044, 6222, 6144, 7364, 2964, 369, 2274, 6126, 8380, 5623, 7259, 377, 2141, 1591, 8325, 2517, 3028, 7297,
     9188, 6264, 9855, 9651, 7193, 8567, 5083, 8014, 9201, 5333, 7238, 9584, 3088, 7961, 2878, 7823, 5650, 416, 6354, 1463,
     2865, 2849, 4143, 2050, 7560, 8561, 5852, 3614, 8131, 4438, 2651, 5475, 5460, 9777, 7906, 6042, 2721, 2585, 9318, 1143,
     9253, 1299, 8239, 7824, 6411, 2208, 3110, 8585, 8806, 7169, 4152, 5281, 1537, 7265, 9635, 5733, 8570, 2346, 5988, 8462,
     2978, 3690, 4782, 9159, 3687, 750, 9190, 937, 8062, 8856, 8842, 9145, 8120, 2824, 8172, 6381, 7467, 3937, 7547, 6886,
     943, 8964, 7434, 5122, 1607, 7194, 1322, 1357, 9009, 8535, 8987, 9162, 1185, 7375, 4993, 1249, 8278, 3645, 3238, 1156,
     3673, 6242, 6530, 5202, 9468, 2376, 1506, 9605, 6763, 5921, 9031, 9348, 5672, 7308, 1122, 3332, 6562, 2494, 9047, 2593,
     8242, 9041, 7829, 8282, 1541, 8969, 6288, 3853, 5942, 476, 2021, 7343, 6644, 5434, 8026, 1779, 4218, 8665, 7157, 5950,
     9909, 4963, 8094, 5413, 7876, 9524, 4891, 8588, 5318, 6144, 5974, 2529, 2356, 8916, 4003, 7091, 9848, 3524, 2806, 6694,
     3901, 3410, 4788, 3624, 7746, 5534, 9271, 350, 4121, 2057, 5685, 7670, 2810, 1411, 67, 5229, 8983, 3098, 770, 6828,
     7786, 520, 204, 9427, 6918, 1704, 4238, 8057, 660, 2079, 1468, 9160, 720, 4658, 7632, 7670, 738, 287, 4433, 3968,
     48, 7115, 4019, 9754, 578, 5526, 4906, 8991, 5946, 3865, 2391, 3198, 8286, 7690, 5441, 6911, 2764, 255, 5187, 4461,
     5704, 1733, 7763, 4691, 1759, 2415, 3695, 1733, 9797, 4348, 1698, 8637, 1510, 3803, 6662, 7457, 5851, 7574, 5929, 4778,
     2188, 590, 641, 9768, 5726, 7702, 4895, 3035, 7027, 8784, 8906, 8216, 2822, 4489, 7699, 6926, 3631, 5329, 5379, 1926,
     6355, 7257, 7096, 4485, 6490, 1552, 9551, 5747, 5998, 3824, 7200, 2928, 9044, 3372, 489, 6695, 9915, 4601, 883, 4015,
     884, 4539, 312, 3607, 6993, 379, 2937, 4274, 6334, 4911, 5578, 7068, 3673, 3118, 6287, 826, 8362, 7865, 5707, 1623,
     9741, 4439, 5335, 3070, 4135, 2655, 5503, 4745, 1035, 2777, 6683, 364, 354, 4217, 296, 3085, 5161, 9245, 618, 1768,
     5368, 4388, 4545, 9369, 5979, 5195, 233, 3924, 5450, 208, 1626, 7260, 1325, 8377, 6222, 2383, 940, 8450, 6546, 6353,
     2565, 4461, 6919, 7370, 6200, 4488, 5151, 707, 6651, 6680, 107, 4688, 9039, 5640, 9707, 8905, 4670, 3060, 2564, 2285,
     8652, 2433, 2083, 3386, 7365, 3090, 8071, 4050, 1289, 9174, 5142, 5502, 7863, 633, 7002, 8488, 148, 7741, 6989, 9515,
     9240, 4695, 9176, 4335, 5437, 4747, 1836, 4236, 2582, 4946, 4680, 5206, 4452, 9553, 599, 3757, 212, 382, 9175, 1724,
     8777, 9818, 3594, 619, 29, 3395, 4869, 1077, 5409, 640, 1890, 8585, 6956, 6103, 4494, 8125, 4544, 2207, 9351, 7714,
     2252, 2653, 8051, 9001, 8982, 1757, 3664, 4315, 6998, 9199, 956, 2283, 8455, 5287, 3784, 6945, 8084, 1486, 6663, 1400,
     4271, 7251, 5637, 9168, 2500, 3954, 2980, 8188, 9805, 2586, 8954, 4361, 9004, 6984, 6434, 3500, 3113, 5599, 7743, 1585,
     5816, 5486, 8953, 4685, 7085, 2769, 9590, 1380, 567, 9529, 9495, 5842, 7275, 8299, 4769, 1561, 3383, 4986, 2335, 6310,
     8090, 2682, 7974, 7062, 941, 6506, 9647, 1576, 5651, 4926, 325, 5103, 8496, 453, 4306, 2756, 7660, 2075, 2145, 9316,
     9883, 7275, 4345, 5684, 2005, 1022, 6076, 9138, 4094, 7753, 1797, 7193, 4390, 7897, 6151, 8470, 6305, 2532, 3764, 2110,
     6921, 3525, 215, 3692, 5014, 3335, 4200, 189, 9959, 8413, 1758, 9280, 8036, 2192, 5238, 1483, 6624, 7440, 882, 5772,
     893, 5877, 9470, 6552, 7380, 735, 3761, 232, 3449, 9370, 981, 802, 2724, 7280, 4871, 6983, 837, 6736, 3109, 1759,
     4136, 2390, 8424, 3963, 8621, 386, 7315, 9491, 9394, 3631, 5000, 229, 1067, 3248, 2524, 2603, 9451, 5209, 7335, 7458,
     4711, 3982, 8629, 2916, 8221, 8364, 8860, 5723, 5709, 5577, 5450, 5050, 492, 1080, 3922, 9398, 2423, 1028, 9022, 1297,
     290, 5912, 9844, 5277, 825, 8367, 9227, 7140, 8027, 5055, 3534, 4111, 1769, 3743, 26, 6631, 4017, 1293, 2500, 1861,
     9681, 3429, 6239, 3168, 3287, 511, 7487, 3692, 9169, 9519, 772, 7339, 4963, 1391, 8877, 9966, 3486, 6703, 5141, 4638,
     2635, 8687, 4467, 680, 3120, 5280, 5827, 8595, 6439, 964, 6646, 1654, 4680, 7026, 8784, 7965, 2674, 3839, 8922, 8844,
     8570, 2842, 2239, 7361, 8504, 6304, 1582, 8760, 2879, 7451, 7383, 7597, 3266, 9337, 5671, 1909, 5229, 7764, 3508, 4820,
     2791, 6791, 4873, 6226, 2805, 9953, 1433, 5682, 9695, 4687, 526, 1294, 1054, 683, 1148, 7505, 8112, 5791, 2984, 1472,
     2641, 4074, 1326, 6319, 4496, 8194, 2298, 9402, 5689, 3287, 3000, 4394, 4022, 5218, 8236, 4127, 49, 7819, 4025, 9934,
     6580, 4271, 8811, 9458, 8772, 1890, 3344, 3857, 2379, 4532, 157, 6853, 373, 3971, 3407, 2958, 4756, 8033, 3196, 4686,
     7854, 850, 6065, 5057, 2200, 4597, 6866, 8509, 1574, 7658, 3230, 8276, 995, 3825, 140, 236, 7251, 4225, 9954, 2770,
     9056, 4980, 6307, 1915, 9083, 486, 4258, 3740, 1805, 2548, 771, 7219, 802, 2136, 883, 4744, 5503, 2959, 3934, 3179,
     7642, 3525, 3247, 3178, 3428, 1706, 7965, 9150, 1877, 5545, 5165, 4867, 9592, 1550, 5591, 4263, 4173, 7367, 2653, 6463,
     3103, 4876, 2437, 3014, 9834, 841, 2997, 8345, 2793, 5974, 9326, 7531, 2270, 9310, 7360, 5990, 7520, 2488, 3865, 9907,
     5430, 1470, 1567, 1556, 9818, 7675, 1752, 2955, 4354, 7867, 8634, 4191, 2196, 7045, 5837, 4849, 8345, 196, 9933, 7639,
     4965, 3361, 202, 3262, 2120, 7569, 5575, 4341, 1934, 5436, 4577, 9715, 7755, 295, 3490, 709, 557, 2719, 3311, 9843,
     1979, 5318, 9366, 2895, 488, 9313, 5765, 7695, 1397, 1001, 9157, 3977, 145, 8846, 8031, 621, 3677, 9218, 8492, 7913,
     7642, 3928, 6810, 8669, 3104, 1252, 2455, 827, 4843, 2695, 9246, 6231, 4915, 8807, 1537, 6509, 4006, 3001, 6234, 3159,
     7060, 3317, 8814, 8441, 3626, 365, 7656, 4262, 1005, 6288, 5984, 1209, 2507, 4026, 5901, 6200, 312, 4158, 6125, 8891,
     6836, 2171, 2730, 3520, 7296, 3087, 6776, 7609, 8316, 488, 9088, 9363, 1818, 637, 3323, 8160, 8338, 1006, 4368, 9208,
     1573, 3642, 7043, 4778, 2183, 1641, 4047, 1439, 1910, 7376, 9014, 4562, 7301, 2187, 1679, 1717, 3279, 7275, 2417, 9564,
     4357, 3328, 2894, 9455, 2188, 6004, 8146, 1130, 7133, 8020, 380, 4707, 315, 514, 9786, 9084, 3589, 1772, 7665, 9600,
     1775, 2096, 3570, 8289, 471, 1758, 5405, 5470, 6332, 8229, 9182, 8486, 6279, 6109, 3729, 4350, 9687, 6791, 2304, 8846,
     3860, 1277, 9134, 4003, 1783, 5880, 8328, 2774, 240, 807, 4327, 211, 6986, 9083, 8175, 202, 8812, 774, 4241, 213,
     706, 6470, 2123, 23, 4801, 2147, 9642, 4220, 706, 6888, 812, 5152, 9926, 3614, 4380, 9222, 6184, 6328, 2096, 4180,
     8466, 9872, 7308, 2230, 4402, 6564, 6471, 9441, 2086, 1348, 2423, 9313, 1498, 6659, 854, 228, 6699, 6640, 708, 4325,
     3504, 715, 2154, 2980, 3717, 5093, 6540, 8894, 6997, 1242, 3092, 7468, 2277, 8562, 2764, 3747, 3384, 8327, 9792, 3280,
     1076, 7808, 4421, 4608, 3933, 1196, 6144, 1512, 5067, 3669, 4843, 5791, 4756, 9270, 5189, 9544, 6462, 3632, 7303, 652,
     6125, 1061, 8528, 7297, 4084, 9780, 3235, 7626, 3174, 7995, 749, 5678, 7954, 9471, 4429, 8491, 5170, 6307, 759, 1192,
     7136, 2896, 5563, 286, 407, 332, 1016, 6187, 6375, 518, 8258, 6339, 6029, 3129, 4659, 2957, 9284, 9188, 6644, 3943,
     5631, 1785, 3242, 958, 5125, 2724, 2181, 9329, 235, 7417, 7201, 4401, 9627, 5523, 4572, 9838, 7265, 6935, 4166, 7745,
     9362, 9643, 4304, 7429, 1615, 7847, 1824, 9858, 3634, 3692, 2201, 9473, 6069, 7582, 3099, 6370, 7468, 5485, 6319, 834,
     5153, 651, 6814, 2991, 9495, 1169, 8234, 620, 3572, 2013, 2210, 625, 1631, 3071, 3778, 3562, 3629, 8017, 7823, 832,
     4535, 3746, 2820, 5676, 4820, 8088, 2908, 2413, 7263, 3702, 8698, 1609, 214, 7691, 8306, 5018, 3287, 2128, 114, 1269,
     9575, 1276, 218, 9306, 1845, 3214, 5738, 7175, 8543, 1825, 1834, 9119, 1347, 9321, 9158, 1379, 7941, 6188, 2701, 5376,
     5735, 5808, 308, 8119, 9371, 22, 912, 2729, 1502, 1153, 6087, 6109, 4526, 977, 6300, 5142, 9604, 2138, 9666, 3376,
     8287, 3885, 8750, 708, 2550, 1047, 6743, 8249, 8837, 6437, 3463, 6985, 3257, 3785, 3595, 5939, 8342, 5047, 3565, 1775,
     8824, 6217, 3713, 119, 6497, 9219, 1821, 1154, 1389, 5894, 8967, 9339, 9356, 8345, 3360, 8489, 3855, 190, 4734, 56,
     1266, 6854, 6627, 5098, 1324, 2572, 8451, 4368, 6603, 5343, 6275, 7527, 5604, 9886, 46, 2916, 4116, 7069, 3061, 567,
     4456, 9595, 5968, 1989, 3932, 2606, 6567, 8074, 6471, 8566, 2148, 9391, 214, 1501, 7511, 5937, 8320, 9167, 4252, 9538,
     5709, 1850, 4094, 5942, 4663, 1669, 9539, 736, 2640, 7902, 8663, 1938, 1950, 4710, 9186, 6998, 1618, 3135, 5553, 5467,
     1592, 1689, 9771, 2493, 9600, 3380, 6903, 2187, 2909, 4804, 1023, 9533, 6211, 4156, 1069, 2281, 5476, 6991, 7074, 2946,
     8321, 3116, 8291, 9248, 551, 6464, 4466, 2383, 9263, 6419, 8764, 839, 2469, 9579, 8833, 3113, 8820, 9699, 5842, 6507,
     6345, 5763, 63, 5144, 6153, 7646, 3260, 1212, 3695, 6818, 6901, 2526, 5392, 2262, 6851, 4796, 6272, 6288, 8350, 9277,
     6812, 2523, 8189, 785, 9279, 9687, 5014, 7624, 8849, 4536, 5923, 8959, 4534, 955, 4666, 5957, 1038, 7299, 8403, 7601,
     7448, 858, 6602, 5892, 9254, 7354, 3660, 2452, 8262, 4934, 3057, 6224, 6669, 336, 6494, 3152, 1010, 4432, 3831, 4172,
     7208, 5253, 3751, 9826, 3868, 8264, 1391, 9866, 1102, 8371, 3960, 4678, 1078, 6565, 8532, 5240, 9947, 5133, 7622, 6635,
     8564, 748, 6822, 5113, 8080, 8738, 1816, 4981, 9806, 7501, 6442, 7905, 8375, 3533, 8684, 7031, 8463, 4364, 6206, 4204,
     9386, 769, 1749, 7978, 9574, 1333, 7024, 3377, 6298, 4391, 7220, 591, 3690, 8653, 4675, 433, 7715, 3045, 2348, 793,
     4978, 8820, 8011, 3419, 5253, 9605, 3533, 5371, 968, 3893, 1828, 3592, 7462, 5804, 8513, 2017, 6943, 3416, 9661, 3141,
     9026, 9340, 6562, 5809, 135, 729, 402, 6539, 3924, 4803, 7909, 9379, 3761, 1089, 6214, 3360, 6932, 17, 6711, 4922,
     9244, 4467, 7417, 5177, 9105, 1893, 6223, 6851, 1305, 3543, 7983, 8107, 6375, 6874, 6972, 1535, 1681, 1867, 9988, 5307,
     4413, 4545, 5503, 4067, 8316, 5708, 8082, 8086, 2864, 3769, 9598, 187, 811, 5927, 6141, 7276, 5927, 8555, 8917, 8562,
     707, 1942, 9625, 8186, 6155, 1314, 3775, 7945, 1809, 4238, 2653, 7474, 6908, 2224, 9620, 3058, 4573, 8237, 7577, 8609,
     1920, 5303, 994, 8297, 1224, 6873, 5717, 9326, 6304, 3916, 1283, 1144, 7174, 9349, 9151, 9262, 788, 4963, 1444, 6515,
     2472, 6993, 5872, 6583, 4887, 3904, 2982, 279, 8940, 4069, 1448, 8646, 2576, 5752, 7703, 5826, 2242, 5305, 7892, 9974,
     5840, 8534, 3961, 4606, 7633, 5731, 1664, 1514, 7808, 343, 9809, 8439, 2966, 4421, 6676, 5082, 2661, 6932, 8886, 4114,
     4406, 2157, 3535, 6542, 3081, 6617, 7627, 7798, 9332, 5376, 6350, 1263, 8095, 3206, 452, 6821, 894, 6339, 1782, 2442,
     7479, 2433, 2247, 8610, 464, 8321, 6436, 9307, 8273, 2780, 2142, 5486, 4594, 4888, 7280, 934, 8293, 7682, 4772, 9991,
     8912, 5982, 8637, 5096, 2215, 7750, 2121, 6802, 7446, 7648, 4729, 2576, 3892, 5828, 9305, 1209, 4124, 9195, 795, 2008,
     6257, 5915, 5306, 7858, 2780, 3249, 2135, 8732, 8743, 8153, 5306, 2486, 3292, 6083, 2582, 744, 2002, 432, 7625, 6344,
     2282, 4164, 6076, 5949, 5508, 5967, 8247, 2574, 4766, 1970, 6902, 6741, 5268, 319, 7727, 1281, 8411, 4727, 1430, 198,
     7532, 2503, 2472, 3738, 8162, 4405, 8696, 2604, 8296, 7386, 7009, 113, 979, 8583, 864, 3905, 2139, 5282, 3146, 7822,
     447, 6887, 337, 4205, 4941, 4341, 1088, 3028, 2024, 6358, 7569, 6916, 2605, 5040, 7570, 5803, 6257, 4870, 7173, 4267,
     2721, 1538, 2313, 8322, 8828, 3587, 5472, 1536, 6108, 1743, 2381, 7208, 4170, 4469, 6321, 2538, 7487, 167, 3398, 3321,
     4264, 26, 4006, 7258, 336, 4158, 4904, 4060, 6289, 8687, 306, 1287, 8029, 6628, 6466, 8502, 6278, 7172, 3807, 3434,
     130, 1550, 3616, 1879, 6645, 5721, 1551, 5682, 8526, 2904, 9770, 4925, 9603, 7873, 6796, 2195, 535, 4118, 9526, 5799,
     8586, 3460, 3186, 480, 9114, 9972, 5345, 9590, 2071, 2139, 811, 5460, 6352, 7684, 4221, 778, 3085, 6253, 4809, 7716,
     6330, 8568, 5289, 9080, 6614, 618, 7612, 4459, 9996, 6738, 8744, 2389, 7144, 900, 5335, 3421, 8156, 2751, 2381, 8087,
     7514, 5944, 6082, 9698, 4606, 9013, 498, 5119, 6135, 4784, 7353, 5360, 6047, 715, 7539, 7958, 5170, 1818, 3321, 1540,
     6748, 4714, 2479, 4950, 3302, 9423, 1683, 2188, 5442, 2339, 9712, 2336, 2580, 4046, 3503, 8561, 5201, 8018, 2123, 6535,
     1282, 6340, 9582, 5403, 5221, 9550, 5446, 4044, 5883, 7382, 5594, 6968, 4775, 4136, 229, 5111, 2650, 9761, 4566, 1114,
     2789, 1579, 8090, 3606, 8570, 1493, 9369, 603, 7736, 9920, 2649, 2205, 6359, 6990, 470, 5835, 4191, 7099, 5443, 4330,
     3222, 4696, 83, 3774, 8500, 8614, 8851, 4657, 3760, 4536, 7081, 8659, 2761, 9116, 8726, 5746, 4479, 7708, 4183, 9389,
     2260, 9143, 1365, 4495, 9266, 7464, 9004, 6997, 8095, 6078, 5378, 5080, 167, 236, 7839, 8581, 9117, 4854, 442, 5271,
     4617, 5353, 4189, 9834, 1735, 1362, 9153, 4641, 9335, 9556, 646, 6360, 3226, 493, 450, 3370, 5592, 4769, 139, 1167,
     4692, 5188, 9434, 8741, 5252, 8716, 7409, 7675, 4668, 9971, 6538, 1724, 4863, 7960, 416, 8794, 1131, 537, 6897, 763,
     3476, 6223, 182, 951, 3634, 8258, 9369, 5222, 1268, 8442, 9260, 8634, 3316, 9160, 5431, 1020, 3703, 7003, 5019, 8019,
     4736, 4888, 66, 2933, 4860, 6273, 6207, 3715, 1989, 8328, 2165, 231, 9072, 9604, 1158, 7788, 8409, 6634, 4405, 2164,
     1162, 978, 9459, 8204, 9206, 1398, 245, 3174, 1011, 5267, 623, 652, 2355, 6353, 323, 5247, 9979, 7429, 3673, 9139,
     5266, 3647, 257, 2451, 560, 24, 8733, 741, 4428, 669, 4739, 4862, 2832, 7814, 5100, 1750, 2564, 6871, 3327, 5182,
     8260, 1598, 7273, 5614, 788, 1708, 5155, 356, 6087, 687, 1185, 2231, 6508, 5827, 7596, 6292, 5532, 5506, 2251, 3971,
     8863, 4376, 5848, 1216, 7981, 9995, 5635, 6525, 3438, 722, 6357, 4277, 2841, 8089, 5276, 2732, 8130, 7004, 5677, 1824,
     5241, 2284, 3502, 3888, 3940, 2355, 8961, 9577, 536, 2863, 3608, 6672, 3905, 4406, 3557, 8404, 9875, 9388, 9941, 2318,
     1336, 6306, 4943, 4292, 9516, 25, 2433, 7746, 1903, 5612, 630, 108, 3751, 7527, 3146, 3220, 9546, 8254, 8070, 7878,
     8227, 5715, 3357, 51, 7207, 6359, 2135, 3878, 4969, 8415, 9417, 4489, 929, 4572, 4432, 6609, 2459, 2881, 7915, 1967,
     854, 5396, 7319, 8917, 308, 9150, 8289, 5693, 1487, 4407, 3912, 9219, 7079, 60, 4719, 3077, 1888, 983, 9298, 7243,
     3988, 895, 3384, 853, 3457, 3758, 7598, 6038, 8579, 9613, 9670, 5113, 860, 9288, 8601, 794, 2488, 6954, 7235, 9624,
     1554, 6445, 4811, 3186, 9178, 3299, 9398, 6283, 2990, 4430, 2168, 7654, 4336, 7565, 773, 6120, 3543, 2890, 7383, 5318,
     8244, 1632, 5002, 6008, 5614, 5752, 1489, 2211, 4149, 931, 7856, 9396, 9481, 2569, 6547, 7548, 1123, 4493, 6482, 8942,
     5729, 117, 1619, 5178, 1006, 5437, 4800, 2317, 4573, 2542, 5856, 4623, 9927, 2529, 6451, 9649, 7625, 9552, 3511, 8929,
     1323, 3651, 8108, 6726, 3222, 10, 439, 9171, 3873, 2572, 2665, 2506, 622, 7025, 3587, 9746, 48, 5754, 3199, 1124,
     5261, 3550, 3038, 9387, 1165, 4161, 7177, 2733, 639, 207, 8431, 9608, 6755, 2571, 6376, 4148, 1665, 3823, 999, 1153,
     924, 430, 2621, 8123, 434, 1885, 6384, 7208, 7231, 6656, 5778, 6380, 8214, 1111, 7200, 2292, 3186, 1824, 4243, 6714,
     423, 9695, 54, 5774, 2777, 5988, 8257, 2589, 9305, 9175, 3498, 1753, 287, 1109, 6256, 5297, 5431, 2831, 651, 5083,
     8752, 8683, 5662, 1634, 3809, 270, 8606, 4171, 884, 7129, 1702, 6678, 685, 2103, 1181, 7276, 8086, 1135, 5389, 2125,
     2146, 5099, 9276, 9936, 761, 4924, 7533, 1423, 3165, 1339, 2139, 9016, 655, 5239, 162, 1707, 9795, 8507, 8824, 9616,
     300, 2767, 8382, 7657, 1737, 7470, 283, 561, 5862, 9154, 1971, 7538, 2668, 8914, 3559, 5061, 4008, 6881, 6800, 1492,
     2942, 2419, 7537, 2558, 7796, 6614, 8135, 9052, 1224, 1975, 6051, 7983, 5918, 9139, 4692, 9138, 5714, 2424, 6746, 2064,
     9013, 2771, 6682, 2785, 1055, 1825, 9280, 2113, 1171, 539, 4694, 7397, 6673, 7173, 3227, 8684, 5774, 6766, 1458, 2293,
     7627, 1520, 2778, 8653, 2234, 4745, 3958, 4148, 422, 6125, 270, 3712, 1983, 1386, 6014, 5359, 525, 8933, 5933, 3431,
     4981, 789, 2816, 2298, 7806, 4280, 376, 5015, 7379, 9450, 3060, 8699, 7606, 8236, 8718, 1605, 5836, 4429, 2887, 8063,
     179, 208, 4903, 8318, 1977, 6543, 9247, 8378, 5418, 7906, 4971, 7446, 304, 3378, 5128, 3573, 3222, 3694, 7824, 3445,
     6469, 269, 5890, 2376, 8947, 386, 7936, 1887, 6045, 3418, 450, 6512, 8946, 5089, 9449, 7673, 1594, 901, 2169, 2644,
     2954, 1031, 1467, 6124, 5850, 8754, 3404, 3089, 7498, 2473, 6330, 278, 1950, 1704, 906, 3009, 7709, 8111, 2156, 8299,
     5130, 9443, 1876, 2125, 3233, 2701, 4602, 6460, 8100, 1256, 1662, 308, 3611, 578, 7447, 7467, 5425, 8187, 8183, 9302,
     3688, 8865, 4852, 9972, 7635, 7100, 9490, 3308, 2745, 1917, 6476, 6571, 4637, 9829, 4142, 3959, 1289, 5949, 2099, 1388,
     2900, 51, 800, 7564, 7908, 9175, 8556, 1274, 294, 5791, 2114, 6174, 2923, 3429, 3545, 7047, 395, 6158, 1906, 8066,
     6474, 8193, 9005, 3861, 4443, 2451, 6562, 3044, 9497, 2765, 7478, 53, 811, 9203, 3639, 8738, 3846, 9124, 2786, 9017,
     2896, 462, 8895, 3135, 6129, 8921, 507, 1047, 1764, 3435, 8246, 759, 7126, 9104, 8485, 2012, 3893, 6926, 3130, 1590,
     6299, 564, 4366, 8484, 1746, 4555, 1666, 1634, 4414, 1976, 7085, 1315, 8163, 8166, 5958, 6788, 9986, 115, 4417, 9574,
     5583, 871, 2357, 5044, 6236, 5072, 1645, 8801, 7638, 4432, 721, 8438, 6917, 2771, 1318, 435, 3200, 2214, 3782, 4474,
     1484, 1759, 9956, 3427, 1232, 4208, 5360, 8886, 884, 6723, 5928, 2914, 4154, 7746, 6199, 4235, 3263, 3452, 5462, 3938,
     198, 4152, 8341, 9071, 310, 5575, 2940, 1624, 774, 9618, 709, 8937, 7662, 6287, 888, 9433, 3593, 7731, 8137, 148,
     7985, 4700, 8080, 4064, 6163, 7931, 3557, 2055, 5115, 7509, 5423, 9431, 3526, 4147, 1560, 8000, 4219, 60, 3673, 1257,
     4435, 8780, 6521, 1920, 1367, 808, 4944, 7233, 8497, 3741, 4609, 8335, 5979, 3947, 6454, 4091, 6428, 4183, 453, 3737,
     2030, 8866, 9062, 9736, 947, 6146, 1468, 1290, 8393, 5431, 3463, 6971, 7877, 893, 5082, 264, 9301, 6279, 8342, 7201,
     5163, 9209, 9265, 1828, 1324, 4319, 9672, 1147, 3400, 9572, 3767, 4074, 618, 5866, 7431, 4749, 1323, 7917, 9254, 4808,
     4151, 7806, 8861, 1064, 2471, 6726, 4444, 9027, 1549, 6146, 4039, 6664, 8630, 4244, 9197, 7680, 9458, 4790, 4865, 1523,
     7830, 2575, 6062, 834, 7540, 5475, 2726, 5398, 3585, 245, 5452, 2021, 6197, 9932, 4356, 9616, 7150, 2447, 1459, 432,
     6282, 1396, 9491, 1636, 1040, 6836, 5559, 1136, 5172, 1864, 4626, 7839, 9252, 4298, 5901, 700, 7326, 4340, 277, 3689,
     9808, 9638, 5296, 3336, 8729, 2489, 4515, 9224, 1906, 9132, 3799, 1414, 877, 6743, 4402, 4941, 9647, 1370, 6263, 3891,
     8579, 3971, 6741, 4942, 333, 4261, 7553, 5115, 7292, 943, 9992, 3684, 393, 4833, 9943, 5980, 3515, 208, 7169, 3919,
     4926, 5682, 6218, 4509, 8885, 5880, 6894, 5823, 1607, 5480, 3510, 2703, 8812, 445, 2216, 9323, 2870, 4011, 7063, 298,
     3630, 3365, 9046, 6944, 5391, 926, 3312, 7834, 2957, 6396, 3836, 5789, 3097, 9792, 1608, 8445, 8406, 6186, 722, 3252,
     3793, 3489, 7968, 6841, 1870, 8222, 6528, 9660, 6659, 3967, 175, 9091, 6063, 1007, 2860, 1612, 8812, 9672, 7703, 8569,
     9239, 2252, 3982, 8475, 8016, 5394, 2268, 8825, 8081, 3790, 1199, 8656, 3641, 7700, 8742, 4195, 8635, 3037, 9855, 5169,
     9490, 6478, 7283, 9445, 9541, 3760, 8432, 9993, 8590, 1904, 713, 8662, 3108, 4352, 5654, 3240, 1693, 8534, 2392, 6300,
     2456, 7059, 9975, 8600, 9670, 1680, 5703, 9849, 2666, 6929, 5498, 9597, 7146, 3040, 417, 6948, 1873, 8076, 2680, 870,
     4076, 328, 4181, 3612, 3935, 6263, 9936, 4341, 213, 648, 8705, 3903, 5515, 6660, 8273, 1042, 8222, 7497, 3838, 8360,
     8084, 7524, 1938, 7121, 297, 2845, 8740, 8860, 3856, 2517, 2775, 4790, 7432, 7440, 8313, 9331, 3087, 9146, 973, 2249,
     7146, 7440, 6065, 6347, 9582, 1304, 4037, 3538, 2034, 6097, 8987, 7713, 5260, 3788, 8940, 9104, 3065, 2414, 8705, 6333,
     1997, 3867, 5233, 4530, 4817, 7446, 1342, 4439, 2881, 7262, 3699, 8794, 1496, 4996, 5747, 3659, 2155, 6395, 295, 8110,
     6411, 2573, 2864, 4090, 8957, 5718, 9320, 1158, 5304, 5598, 8875, 4723, 4095, 6534, 4728, 9324, 4131, 2822, 9301, 6128,
     1655, 9080, 1499, 4073, 4443, 3934, 341, 1821, 1467, 7770, 457, 8626, 758, 529, 4541, 7848, 2301, 9356, 5170, 6811,
     6667, 3257, 1032, 6024, 7626, 3781, 6076, 1996, 6807, 2844, 2872, 5831, 1386, 2837, 8147, 6951, 428, 8128, 7447, 8930,
     6276, 7398, 9960, 5513, 1692, 6560, 6145, 3805, 5577, 8174, 9657, 292, 7603, 7969, 9146, 58, 4473, 2859, 952, 5467,
     5989, 5847, 1595, 4592, 791, 7489, 121, 3175, 7247, 3223, 588, 5490, 202, 8762, 7157, 891, 7959, 2638, 1309, 12,
     1356, 1433, 7421, 6277, 1142, 7173, 1099, 7799, 3577, 4751, 2128, 5077, 5428, 7068, 3674, 9996, 2787, 7520, 7281, 9121,
     4570, 4455, 2604, 1098, 2285, 4728, 5576, 7343, 4342, 8551, 7163, 9673, 5791, 1348, 6365, 4087, 8651, 3426, 2615, 6860,
     5147, 4613, 7817, 3710, 7206, 7004, 4921, 1102, 8177, 1814, 2907, 3526, 7705, 3535, 8928, 7444, 4033, 1102, 2879, 972,
     6576, 5902, 4742, 6206, 1592, 5511, 9167, 4187, 924, 6264, 7665, 5394, 7124, 5899, 1767, 5638, 3778, 8598, 3366, 7299,
     1670, 6802, 9692, 4255, 3063, 8367, 7131, 7854, 8315, 5394, 207, 3135, 6826, 991, 5586, 3238, 4463, 2788, 6022, 468,
     1440, 768, 7756, 3251, 8520, 2600, 1421, 1713, 6077, 6212, 300, 4181, 1650, 732, 8416, 9068, 8933, 8990, 3551, 1200,
     1733, 5410, 1538, 4632, 8778, 8862, 8841, 3592, 1813, 3497, 8712, 2266, 5028, 7153, 3531, 2096, 6535, 4386, 9344, 7481,
     4232, 2376, 2886, 3713, 7705, 6560, 8782, 6855, 8164, 7101, 7220, 6048, 8565, 6731, 5653, 530, 4215, 8414, 8385, 8682,
     9554, 7277, 2137, 6499, 182, 2214, 819, 5590, 9500, 9591, 519, 5381, 1489, 9595, 2022, 6773, 7697, 2834, 5137, 7697,
     6750, 1687, 4399, 6801, 7384, 2154, 8991, 6753, 2895, 8977, 6430, 1795, 5048, 8894, 2047, 9622, 9590, 7236, 4872, 2682,
     8380, 9604, 8125, 4541, 8765, 212, 7156, 1682, 9656, 9434, 1137, 9671, 3365, 8982, 5189, 131, 2178, 6244, 6529, 1216,
     6681, 2986, 5259, 9642, 6916, 2592, 979, 1747, 4285, 1969, 3805, 9168, 7089, 8525, 1168, 8073, 8706, 7476, 5824, 2855,
     9684, 7884, 7593, 89, 3914, 4601, 8192, 6946, 6334, 7247, 8246, 6908, 688, 7488, 2411, 6369, 9908, 7037, 3321, 8343,
     3953, 3023, 1702, 5442, 2347, 8158, 4123, 7625, 6478, 6805, 9320, 2870, 5293, 1659, 6794, 542, 371, 5709, 3459, 5681,
     8667, 2345, 8480, 6171, 9377, 8820, 3446, 2203, 598, 3714, 9140, 6187, 2022, 7829, 5052, 2346, 3812, 6787, 4549, 5173,
     8670, 3771, 5387, 517, 6880, 9504, 7012, 9309, 5070, 8895, 1946, 1336, 4881, 4040, 9667, 720, 759, 1050, 7422, 468,
     2838, 1043, 3758, 4600, 4453, 3004, 9955, 2, 9195, 183, 2052, 8477, 8218, 7261, 1524, 2546, 5578, 1409, 7228, 8171,
     9568, 7736, 7451, 5572, 9196, 9207, 1868, 7148, 1016, 5251, 1934, 2684, 5231, 5744, 8934, 451, 1572, 4019, 2273, 5849,
     1025, 9962, 5148, 8545, 4595, 5042, 2518, 4802, 5585, 8962, 198, 4786, 9663, 2101, 3027, 8369, 6571, 5565, 5897, 6297,
     6744, 7432, 4435, 4570, 8495, 732, 1005, 7046, 1039, 3376, 3246, 8724, 6404, 9825, 5946, 5444, 3218, 9248, 5286, 4643,
     5997, 6472, 7401, 8812, 6429, 8203, 9431, 4379, 5759, 8224, 183, 6250, 1575, 9730, 9169, 966, 1300, 4692, 5979, 1335,
     5465, 8960, 2813, 7705, 5254, 5346, 6341, 1738, 1137, 6166, 5092, 9077, 3756, 6322, 9, 5732, 3082, 2779, 8531, 7475,
     9428, 9947, 1192, 3576, 7602, 1138, 5322, 160, 7295, 5574, 9729, 7582, 6454, 1113, 7193, 8897, 1934, 4826, 6837, 8992,
     4622, 8065, 508, 6836, 4714, 7787, 2824, 7027, 832, 4596, 2622, 9881, 8036, 4421, 9581, 1139, 6911, 8097, 2652, 8651,
     1075, 3661, 9173, 8673, 4261, 8380, 6832, 6904, 5836, 7766, 6315, 450, 3944, 1865, 5495, 7774, 6815, 4232, 3982, 2685,
     6166, 3772, 3179, 9318, 143, 2319, 6209, 4334, 4144, 2392, 6482, 4510, 3195, 4628, 2965, 9211, 9741, 5875, 4334, 2705,
     72, 8763, 1671, 7958, 399, 2012, 7362, 8944, 8128, 5084, 2375, 4276, 148, 6112, 669, 234, 6687, 6859, 6183, 4582,
     6985, 8112, 976, 7547, 3770, 6095, 8185, 2404, 8371, 7545, 2670, 3295, 3587, 3133, 4337, 394, 2050, 4888, 7060, 9951,
     6798, 897, 9202, 3246, 2817, 8392, 7569, 4122, 1062, 7370, 2590, 8202, 1444, 592, 7984, 5332, 9988, 5941, 8680, 69,
     5828, 327, 1243, 7640, 7119, 3284, 8597, 3406, 4244, 1328, 1854, 8718, 9812, 3821, 9472, 3185, 2889, 372, 6939, 4908,
     7098, 4820, 4610, 2334, 9757, 9848, 4027, 2228, 4727, 7065, 850, 7609, 3060, 9266, 4354, 6374, 4631, 5436, 3809, 9705,
     4808, 7028, 652, 509, 1660, 2034, 127, 6591, 7379, 281, 7259, 177, 7080, 9007, 4193, 8731, 4967, 1217, 6189, 3475,
     1901, 4480, 4835, 8274, 8028, 3870, 5323, 6598, 9169, 3083, 8640, 9117, 5391, 4875, 2025, 8878, 6379, 7227, 2156, 3394,
     8118, 143, 9994, 7021, 4060, 9156, 6899, 2108, 4472, 1735, 2282, 1083, 7937, 9641, 7370, 7762, 1766, 8677, 5221, 2917,
     4333, 9796, 2390, 3639, 486, 5835, 8571, 704, 4525, 1484, 8918, 2995, 5585, 949, 2865, 3373, 4405, 1921, 1607, 8382,
     997, 773, 5501, 9205, 2338, 5239, 6671, 6898, 7200, 2118, 7740, 5420, 4539, 9175, 7157, 774, 8975, 1904, 9330, 6057,
     7786, 9885, 4966, 1760, 8400, 9605, 7639, 3153, 8516, 4823, 8690, 2400, 6263, 7107, 5120, 1782, 9558, 3785, 6516, 4457,
     1371, 8315, 114, 6572, 6881, 9420, 3899, 3764, 7732, 1246, 3963, 8948, 3685, 5715, 3505, 1000, 2133, 4094, 4198, 5328,
     684, 7609, 3535, 4945, 4622, 2188, 3464, 5745, 7658, 688, 1490, 1496, 5873, 1834, 5736, 3556, 2910, 186, 3664, 3226,
     1641, 1923, 9397, 1826, 5899, 4176, 8067, 3888, 3988, 2681, 6864, 7033, 4747, 8681, 1985, 2776, 2974, 9759, 4531, 9400,
     7514, 6219, 2851, 4418, 3264, 7302, 371, 4302, 1751, 5144, 764, 5362, 2589, 3074, 3495, 8154, 2447, 7268, 248, 4358,
     4125, 169, 4295, 7602, 2389, 5685, 1304, 4935, 7604, 9635, 5988, 767, 2266, 62, 3917, 8986, 3836, 8059, 839, 7978,
     4527, 4069, 1162, 1172, 935, 5271, 2563, 7725, 6923, 1527, 218, 3993, 8647, 8321, 6924, 1107, 3671, 6785, 3199, 2612,
     8140, 1532, 2764, 4979, 9561, 6504, 6763, 5194, 2356, 5387, 2023, 3239, 6112, 4830, 4406, 7640, 1653, 1065, 4582, 9608,
     5455, 9892, 622, 4146, 7808, 8474, 3749, 6867, 2637, 963, 2779, 4937, 1882, 831, 3450, 3873, 4783, 1292, 2009, 3480,
     1377, 1832, 141, 4361, 2862, 5036, 3819, 5587, 8860, 8641, 831, 6293, 2097, 1337, 1331, 6189, 1049, 9911, 3850, 4931,
     2077, 5190, 8389, 8892, 68, 4687, 1416, 865, 2284, 2814, 2653, 7035, 2857, 2996, 2944, 5751, 8365, 5764, 433, 3791,
     9626, 3636, 6096, 2985, 6174, 8216, 3855, 2897, 6533, 8200, 3945, 6337, 1661, 6031, 6268, 1202, 2166, 3833, 8997, 3237,
     2056, 5036, 4854, 3056, 3456, 1929, 4872, 6841, 8144, 2946, 3297, 7712, 7424, 6937, 8241, 2225, 1819, 1068, 2503, 9872,
     6610, 6874, 1524, 3582, 2641, 4938, 9273, 128, 8525, 5930, 3870, 7718, 9083, 1449, 3671, 7377, 7592, 8126, 2852, 228,
     3118, 3165, 4779, 3831, 8780, 373, 7952, 2429, 5699, 775, 3573, 3468, 157, 5168, 6331, 4259, 2700, 701, 886, 2982,
     9740, 4865, 901, 7015, 6862, 4714, 7073, 3074, 3294, 4790, 1636, 5423, 8886, 4956, 9710, 8329, 452, 5215, 3525, 8843,
     6275, 4380, 373, 3688, 5507, 9617, 8430, 7419, 871, 6097, 3684, 3452, 8705, 1211, 4037, 8797, 6585, 1849, 572, 71,
     7585, 3972, 970, 9853, 6828, 4067, 7585, 6900, 9374, 9835, 7425, 2086, 1043, 2792, 3289, 9384, 7710, 5265, 893, 4235,
     589, 9934, 4030, 865, 7325, 4249, 8627, 1907, 9888, 3462, 9690, 3450, 7992, 2396, 2589, 6523, 2364, 2723, 5815, 2860,
     7912, 3477, 6067, 4708, 1560, 6627, 8883, 3380, 3281, 8344, 2001, 9259, 4409, 2791, 2914, 427, 5348, 8549, 4349, 2530,
     5440, 6819, 6933, 4951, 9453, 6052, 5706, 3561, 351, 7190, 7420, 5218, 6813, 4965, 8292, 1369, 9811, 9465, 5210, 2034,
     6554, 4788, 8466, 5700, 4627, 538, 2851, 7724, 4105, 8553, 5019, 4104, 9288, 7360, 3596, 3831, 2238, 4135, 3868, 7897,
     5665, 1674, 4940, 5384, 2517, 9572, 7340, 9993, 7013, 4016, 9069, 7039, 4953, 2665, 6568, 3961, 6836, 4382, 3962, 623,
     6005, 7509, 2091, 368, 1147, 6884, 1553, 7369, 7223, 3512, 951, 8666, 4706, 9646, 9780, 2565, 5029, 771, 1818, 363,
     3140, 4422, 605, 4286, 1449, 1787, 5198, 8471, 9374, 3466, 1618, 8883, 3249, 4283, 4632, 1399, 726, 135, 5896, 8484,
     507, 1961, 6416, 657, 6259, 6742, 3779, 1902, 6003, 8481, 4646, 7929, 6196, 2876, 383, 7076, 2851, 9811, 3577, 9298,
     674, 8224, 6116, 8612, 7404, 4206, 3438, 9376, 2153, 8515, 5266, 2321, 6438, 8434, 9267, 1149, 8149, 7312, 2904, 6730,
     7256, 9066, 5237, 9145, 8378, 7942, 5361, 917, 264, 7385, 821, 7004, 973, 9052, 7320, 7452, 2050, 9098, 1152, 2491,
     8034, 8964, 6823, 4837, 6386, 9360, 5939, 8343, 5325, 4042, 2669, 2941, 7227, 1492, 5297, 7463, 4129, 4399, 9785, 6322,
     1711, 3569, 4392, 3112, 4127, 8924, 4435, 6304, 997, 2555, 497, 847, 7723, 9671, 3767, 6037, 5899, 8062, 9158, 6020,
     5289, 2645, 3256, 4443, 9752, 7030, 9943, 9714, 2314, 3812, 741, 9332, 7209, 4484, 8593, 4744, 6123, 360, 5456, 4434,
     2864, 1274, 2662, 3941, 3944, 3527, 9594, 615, 911, 9181, 3344, 334, 8912, 6019, 1515, 9893, 8344, 3841, 3168, 9356,
     613, 4977, 9750, 3725, 6424, 3975, 6682, 2457, 7505, 3943, 3363, 4456, 8603, 1205, 9973, 1361, 3368, 6088, 1497, 4540,
     8288, 4768, 5913, 3769, 3048, 8965, 7387, 3548, 4865, 7661, 9008, 9299, 7178, 9309, 1825, 1613, 2668, 8548, 8098, 7500,
     1846, 143, 9574, 7306, 4939, 9257, 8689, 667, 5968, 3542, 1407, 6055, 800, 9648, 7518, 9588, 5384, 1159, 3092, 4224,
     4124, 9407, 1658, 2075, 3171, 4374, 6851, 6008, 5084, 7363, 3445, 4693, 4503, 6452, 3127, 9215, 2490, 8785, 9751, 524,
     2811, 344, 9921, 3116, 7955, 8836, 3540, 228, 8690, 363, 5580, 6956, 4438, 1796, 7397, 4753, 9146, 4100, 2849, 5632,
     2781, 3284, 9553, 7721, 9804, 4996, 9346, 7086, 219, 8842, 8460, 1692, 9365, 6356, 316, 6930, 2895, 387, 2438, 405,
     6404, 7090, 7003, 7462, 9881, 1601, 6653, 6186, 6404, 188, 5618, 8452, 1670, 7753, 31, 2714, 2355, 9178, 4611, 8063,
     2058, 7263, 9802, 3107, 907, 7185, 8816, 1663, 746, 3406, 4822, 9304, 8877, 7845, 941, 1365, 6278, 5816, 7479, 9820,
     89, 9956, 7423, 2897, 8470, 3707, 3472, 2823, 4419, 2504, 7951, 6157, 6939, 4472, 6362, 2302, 3676, 881, 1657, 8069,
     243, 6125, 2995, 5491, 9056, 9110, 8830, 2527, 9867, 2459, 342, 5871, 7294, 5190, 8338, 8447, 8591, 1063, 4503, 5573,
     6205, 5610, 4408, 2929, 6142, 5655, 8561, 6715, 8234, 8123, 9060, 7015, 6963, 3227, 3468, 2479, 9312, 1973, 6327, 2094,
     4492, 9201, 84, 3162, 8629, 3067, 2487, 6540, 9664, 9625, 391, 4403, 9754, 8698, 3594, 175, 9801, 900, 137, 4228,
     8808, 8186, 9364, 4861, 9517, 5593, 574, 5831, 1122, 7983, 6324, 1868, 5234, 9828, 3676, 449, 8048, 3937, 2849, 4601,
     3282, 2983, 6068, 8133, 3897, 2167, 4941, 8141, 8044, 427, 3017, 709, 3413, 8802, 4947, 9243, 654, 5486, 8040, 4412,
     8625, 1084, 454, 6351, 8971, 8909, 5751, 9780, 6581, 5613, 5446, 8103, 5104, 7444, 1180, 8360, 9004, 8318, 7241, 3545,
     8206, 4790, 5729, 1973, 8621, 7803, 6139, 720, 1659, 9227, 5867, 3164, 9020, 8625, 4501, 7490, 9836, 6644, 2968, 7549,
     2641, 2401, 3147, 8432, 4133, 6292, 9515, 4512, 8527, 2940, 3900, 878, 7755, 5505, 8489, 9333, 8176, 4547, 3591, 6181,
     9074, 3092, 9685, 6727, 7966, 5934, 1738, 4049, 5107, 6741, 7095, 144, 7537, 9832, 2507, 8399, 2092, 8070, 6849, 6376,
     8476, 3165, 4926, 9819, 5781, 9014, 8387, 2092, 6701, 7069, 7535, 8396, 6921, 9990, 4057, 8708, 3388, 5098, 9166, 9112,
     433, 9802, 4015, 5313, 4967, 3653, 948, 427, 7855, 7504, 498, 282, 2529, 115, 9490, 6689, 1282, 3430, 4514, 4023,
     7800, 9168, 9960, 6851, 8877, 8387, 1302, 6550, 129, 4891, 3237, 5259, 6710, 3962, 4723, 7683, 3598, 9782, 6475, 3821,
     3825, 4210, 6939, 7039, 1982, 3725, 2902, 5728, 6202, 9508, 978, 5083, 8397, 9631, 1624, 128, 682, 8248, 3879, 627,
     2636, 9468, 1549, 222, 6682, 2315, 3722, 8400, 591, 2344, 2579, 8230, 5731, 9592, 7174, 7810, 4547, 7512, 1276, 2045,
     8006, 2047, 1417, 6770, 9400, 2651, 1265, 2719, 2938, 6835, 697, 7389, 2292, 172, 9736, 1137, 112, 2431, 4724, 3046,
     9375, 1475, 814, 2225, 1331, 7393, 3282, 7192, 9283, 7903, 8017, 500, 3176, 5077, 9245, 5344, 2621, 2669, 9679, 9631,
     610, 8262, 7384, 1145, 9590, 6523, 9153, 8110, 441, 219, 1602, 5767, 3426, 9655, 7841, 248, 2746, 5159, 7190, 9041,
     3515, 6014, 9398, 8494, 8422, 135, 848, 1737, 7093, 6650, 9388, 5138, 6145, 6315, 2713, 2629, 6195, 6640, 1793, 8374,
     828, 3671, 238, 619, 5299, 6750, 3226, 4638, 7799, 2959, 9964, 8394, 7267, 6707, 7403, 5801, 3581, 2710, 4766, 4248,
     7071, 3994, 3319, 9248, 9121, 479, 5242, 5936, 7647, 4577, 4533, 9413, 9637, 6686, 9552, 4272, 7816, 7928, 7672, 4258,
     9219, 7094, 721, 7794, 366, 2140, 8340, 678, 9025, 3512, 8974, 2173, 2083, 1111, 4138, 8177, 189, 1895, 8123, 2448,
     3546, 6529, 1899, 9321, 4765, 6202, 8112, 2219, 7438, 5916, 1843, 4836, 6886, 5156, 2419, 5491, 8671, 6945, 3468, 4818,
     4844, 3112, 2744, 4858, 1823, 6512, 6531, 4074, 1242, 7613, 3478, 9726, 2202, 9082, 4788, 3389, 1890, 746, 1970, 8014,
     9510, 5556, 3211, 5344, 3475, 1643, 9662, 5391, 5325, 1316, 1567, 8420, 8971, 2403, 8782, 4663, 5982, 2236, 5055, 202,
     3896, 6873, 836, 7008, 7777, 2227, 7772, 3896, 3590, 4975, 9728, 7681, 3453, 9620, 5149, 7685, 5254, 3991, 820, 7919,
     6674, 1636, 3766, 8459, 5526, 7454, 2119, 4129, 3532, 8587, 8468, 2372, 8243, 8874, 3693, 8323, 4221, 12, 5633, 4886,
     4787, 6188, 2988, 3765, 5001, 5915, 1365, 1083, 7166, 5629, 2587, 837, 4108, 2575, 822, 9072, 6986, 7688, 2854, 4492,
     8607, 8768, 7212, 5390, 5886, 3566, 9838, 68, 8522, 7345, 4294, 8453, 3889, 7897, 8727, 167, 3008, 8420, 4508, 2403,
     3685, 8803, 1966, 4979, 3164, 7390, 6766, 6393, 1671, 3517, 4774, 7291, 3564, 3664, 7013, 5141, 2973, 9412, 328, 8703,
     1817, 1338, 6098, 91, 2698, 3936, 4097, 5420, 8983, 6329, 508, 3394, 8776, 4974, 9186, 7974, 4726, 113, 837, 8670,
     9103, 9501, 4039, 1143, 7854, 8826, 7342, 4418, 986, 6226, 6931, 8289, 3580, 9125, 789, 5890, 7522, 6671, 864, 6270,
     9788, 5597, 8761, 7021, 7914, 87, 4393, 4437, 7965, 19, 1598, 7620, 5421, 9725, 6103, 8991, 6559, 79, 6240, 2356,
     6236, 5775, 5195, 7766, 6011, 1673, 2325, 5028, 7217, 121, 1319, 2684, 8133, 3089, 4026, 9647, 396, 2185, 9144, 7149,
     9595, 4982, 3944, 3680, 4162, 1251, 6643, 4469, 5233, 3445, 7252, 7492, 4857, 7533, 9829, 1594, 4658, 3567, 6962, 7412,
     2130, 2388, 4902, 1271, 8618, 5429, 2186, 7330, 3208, 4496, 9413, 4549, 2257, 2721, 3446, 9260, 4498, 8378, 8591, 651,
     1777, 2145, 9584, 1341, 335, 8920, 6048, 6826, 5710, 6503, 4498, 1483, 3724, 921, 4195, 9233, 3825, 6995, 8894, 6940,
     6157, 7674, 3427, 9209, 5742, 1623, 4619, 4401, 2082, 9619, 2192, 7227, 169, 7537, 5360, 202, 3450, 6645, 3269, 3633,
     9980, 2498, 1163, 1476, 7377, 8453, 1860, 8752, 299, 8800, 6962, 5164, 4057, 1493, 2853, 8493, 3322, 2015, 4746, 9641,
     5327, 8915, 8887, 3250, 9380, 1875, 5852, 4933, 7638, 7495, 4837, 1434, 6845, 8891, 5584, 7313, 6366, 369, 234, 2486,
     1271, 1905, 327, 5294, 4490, 5862, 2277, 2288, 6838, 560, 5733, 9672, 40, 4929, 6464, 8144, 8834, 6369, 2238, 5924,
     3957, 6228, 8437, 8711, 9826, 3799, 9893, 107, 3794, 6010, 4596, 5133, 8052, 9707, 4999, 2068, 3136, 3796, 2730, 7435,
     1266, 2571, 4111, 1904, 6186, 8504, 4154, 3739, 7950, 8889, 2467, 3244, 9797, 7915, 974, 4403, 113, 7607, 4322, 5217,
     9677, 1291, 3186, 4193, 5547, 3052, 4800, 6447, 7791, 2151, 1986, 7090, 8869, 9926, 26, 359, 7211, 7955, 4552, 6007,
     1189, 4882, 3986, 7429, 4336, 3728, 7078, 8965, 8658, 6431, 4278, 8465, 288, 2004, 2261, 4491, 5884, 9972, 7361, 3254,
     1072, 7123, 295, 5834, 6234, 6425, 6232, 3712, 8000, 1977, 3378, 2861, 9696, 4471, 5232, 3770, 4075, 3483, 2516, 1156,
     5330, 1926, 2941, 2964, 1251, 2701, 9703, 7123, 5038, 3433, 9230, 4181, 9144, 5670, 224, 8976, 1444, 5639, 2185, 6165,
     4721, 6184, 4684, 6541, 3474, 3761, 4135, 9440, 8156, 1948, 1916, 4884, 1215, 2491, 3716, 7977, 6019, 1251, 9686, 9712,
     8888, 6545, 2449, 8070, 2618, 1300, 9611, 2663, 3575, 7806, 225, 6335, 2834, 1285, 675, 8066, 8094, 6191, 1510, 4781,
     1368, 230, 2765, 8396, 5922, 6008, 2737, 4589, 7870, 7793, 5582, 5486, 5106, 8048, 776, 8107, 5082, 4077, 5366, 1827,
     7245, 2983, 5394, 4475, 2787, 8992, 211, 1645, 9271, 5747, 4010, 4834, 8424, 749, 5887, 4875, 7182, 6889, 1527, 1141,
     5955, 7959, 7650, 5392, 19, 6223, 4518, 1301, 9096, 8901, 1329, 7731, 4815, 9485, 4370, 3416, 6752, 4918, 3356, 3772,
     9480, 6212, 7885, 4454, 3862, 151, 2392, 7615, 5252, 708, 6200, 2420, 5480, 4930, 5584, 9215, 6068, 2084, 7015, 2542,
     7538, 9859, 1911, 3927, 3165, 924, 8153, 325, 7366, 4065, 7962, 4989, 3844, 4323, 275, 6308, 4860, 9093, 223, 2677,
     2770, 2765, 200, 2262, 4279, 8374, 837, 5911, 6363, 3235, 705, 8677, 5770, 1591, 818, 935, 1424, 8506, 3781, 5555,
     6788, 2365, 3929, 9128, 3358, 9814, 1963, 6949, 158, 5030, 2523, 9104, 3389, 4212, 3610, 9559, 9759, 1736, 9398, 668,
     8558, 6866, 2858, 2715, 2846, 1802, 1854, 3955, 9341, 35, 3792, 6259, 5246, 2712, 350, 7205, 3829, 1545, 4473, 7726,
     7274, 6121, 8050, 3611, 871, 2148, 6940, 4413, 4093, 6381, 1826, 737, 7361, 209, 262, 1255, 8075, 7126, 1971, 5102,
     6430, 607, 8535, 1167, 6460, 3041, 1982, 2974, 6671, 2252, 8867, 9219, 4515, 664, 6326, 5572, 1012, 9051, 1333, 2734,
     8922, 487, 7581, 3327, 3190, 7417, 7841, 3147, 8614, 1986, 6352, 8171, 9195, 9195, 1653, 5823, 5195, 6385, 865, 6310,
     1423, 3271, 3550, 1695, 3437, 402, 7527, 8168, 9113, 7849, 7296, 2900, 3948, 4345, 1787, 8417, 9645, 9730, 8021, 3930,
     4167, 2717, 3651, 4797, 546, 8340, 564, 8269, 9325, 2027, 2607, 3940, 322, 2435, 2459, 165, 8115, 7897, 1608, 2739,
     4074, 3470, 3825, 3808, 3443, 3119, 8848, 9411, 356, 591, 6229, 2042, 7065, 1511, 8489, 1938, 4386, 8324, 1165, 1902,
     4561, 6697, 8466, 1424, 5221, 4170, 7290, 2919, 8203, 5041, 3852, 3080, 5821, 9575, 1799, 5771, 6307, 4048, 5547, 151,
     301, 2138, 1864, 2024, 4405, 1370, 8629, 3291, 4151, 7146, 8361, 8307, 6754, 648, 4503, 3167, 864, 4238, 5245, 9534,
     7702, 4438, 7553, 22, 9088, 1026, 7257, 8157, 4687, 3863, 2227, 6621, 1397, 534, 7877, 8285, 2810, 9681, 4874, 8434,
     6891, 7381, 5895, 7874, 5200, 1573, 2602, 4217, 6591, 9978, 4762, 4309, 3576, 5835, 2581, 8437, 2195, 51, 2220, 1927,
     1051, 6234, 7239, 5134, 3623, 2944, 1504, 3115, 3039, 2176, 3996, 4238, 3084, 2245, 8431, 5421, 9640, 4773, 3082, 4405,
     416, 1956, 1288, 1730, 2402, 2987, 3772, 3072, 2260, 5869, 4012, 9858, 1025, 9178, 1706, 6415, 1755, 9670, 1997, 9839,
     6234, 8278, 9263, 8716, 8171, 7693, 4139, 8184, 1884, 4110, 3572, 1512, 6217, 9607, 8293, 9788, 931, 9759, 5856, 8828,
     2445, 7722, 9912, 1960, 8752, 6003, 500, 5471, 3176, 1418, 9438, 5473, 928, 4697, 6295, 9492, 8094, 8845, 8937, 9172,
     8737, 9143, 7091, 2545, 8422, 4813, 5522, 3932, 2762, 8798, 5604, 8133, 2228, 8211, 4308, 5538, 8420, 2772, 9763, 4937,
     8753, 6841, 4453, 6351, 9333, 9355, 8819, 1463, 7922, 1422, 1972, 9476, 9560, 3228, 3146, 4799, 648, 7739, 9661, 3664,
     8179, 8845, 5930, 2145, 4578, 4749, 8340, 6576, 8304, 9144, 899, 7981, 5362, 9725, 1285, 4428, 4407, 5530, 4270, 5507,
     9432, 1126, 8030, 9824, 7076, 3920, 4157, 7491, 9828, 9657, 262, 3426, 8021, 7802, 5166, 3575, 1903, 8966, 5139, 761,
     866, 4683, 4327, 2921, 1652, 9034, 2158, 4907, 9346, 6988, 6218, 1943, 5420, 761, 5304, 1275, 6507, 640, 827, 6519,
     8183, 6361, 4011, 1726, 9031, 4121, 2726, 4598, 6431, 1421, 4898, 1747, 3460, 8621, 4704, 8355, 9132, 4729, 9549, 7607,
     567, 9182, 5651, 3062, 1027, 5226, 520, 7812, 8879, 9257, 7087, 7038, 3118, 6364, 1192, 8648, 9303, 9159, 8658, 4234,
     6728, 1699, 3865, 3857, 3326, 1003, 4086, 4495, 6985, 1207, 3487, 9418, 7351, 9762, 6592, 8613, 9764, 6250, 2614, 6755,
     1331, 1779, 4591, 1421, 5918, 4426, 4908, 1399, 577, 9073, 8478, 8886, 218, 9353, 183, 8123, 5979, 3384, 3725, 6682,
     9482, 3838, 889, 7282, 6556, 3049, 31, 5895, 9615, 9766, 5050, 4103, 3054, 1835, 9960, 4450, 372, 9354, 9150, 7579,
     8281, 2557, 4465, 9122, 4684, 8525, 9763, 4873, 8331, 5243, 3126, 5457, 8961, 5939, 8445, 6695, 6019, 9147, 911, 7754,
     8027, 8560, 4273, 6027, 5481, 4300, 1939, 851, 6516, 4827, 8944, 2087, 6838, 2967, 7457, 834, 6988, 5451, 1798, 9873,
     6031, 600, 2470, 8132, 8556, 7566, 736, 5953, 9244, 4532, 4540, 7832, 8187, 2179, 513, 4916, 5624, 5544, 675, 1792,
     6626, 8460, 8730, 5531, 9368, 2408, 3287, 6655, 6819, 54, 1757, 5378, 7132, 7162, 221, 1887, 4792, 930, 1861, 4959,
     8528, 1504, 8663, 5873, 4869, 3899, 6441, 9754, 141, 1310, 1911, 7736, 5059, 9359, 8400, 174, 5875, 5777, 7267, 9448,
     14, 7620, 5431, 4728, 2373, 7099, 3099, 1059, 115, 5446, 1212, 8529, 3008, 612, 301, 1308, 8924, 171, 3469, 4756,
     3283, 3988, 8815, 6746, 7409, 9440, 222, 2644, 7429, 9641, 943, 1924, 2594, 3831, 8480, 4957, 2163, 2560, 826, 1785,
     1791, 6578, 3577, 8715, 1577, 1907, 2983, 6059, 3589, 4866, 3475, 3951, 396, 8198, 8489, 1600, 3559, 5491, 7542, 9089,
     2409, 3965, 8290, 151, 2127, 2482, 8872, 6450, 3354, 8704, 6152, 393, 4254, 8210, 5846, 4119, 5479, 5182, 933, 8097,
     583, 3683, 1302, 2563, 6336, 5120, 9622, 2373, 9762, 8151, 3612, 6337, 591, 1549, 9312, 3826, 345, 1188, 5550, 5812,
     7976, 4214, 3458, 9177, 8100, 8640, 4276, 7537, 1149, 6760, 2584, 4318, 6080, 8743, 6139, 9332, 5892, 9982, 1010, 5811,
     8365, 5424, 9770, 7630, 334, 2269, 9317, 2412, 9920, 1940, 5574, 70, 4017, 6110, 7605, 6119, 3692, 6932, 63, 313,
     105, 4946, 2823, 1097, 5760, 6307, 8037, 2032, 6505, 4288, 1017, 6377, 183, 7178, 500, 590, 5294, 9002, 9874, 9684,
     2889, 5328, 6287, 6471, 829, 4631, 5492, 4027, 1424, 7856, 4365, 1247, 2959, 7572, 1593, 1446, 3792, 5549, 5259, 5958,
     3194, 786, 5179, 3046, 9830, 2, 728, 7378, 6406, 1304, 1279, 8121, 8130, 988, 8093, 6140, 9073, 4099, 3171, 5496,
     696, 8926, 7061, 1682, 5796, 4607, 1518, 5565, 2452, 2884, 8605, 7753, 3848, 9974, 5943, 8995, 5875, 2547, 7832, 6134,
     8539, 6243, 6878, 6410, 9393, 2876, 4111, 1666, 9684, 6892, 9679, 4569, 9406, 8741, 3192, 7914, 3475, 8809, 5079, 6296,
     7671, 7895, 1142, 9257, 1976, 7960, 7406, 5566, 5164, 8176, 6536, 2557, 2824, 273, 9619, 9267, 7594, 8150, 3551, 5590,
     9096, 7392, 4431, 3760, 7712, 7975, 2776, 8029, 2573, 2957, 6307, 5822, 9839, 6152, 84, 2573, 4250, 8162, 3793, 1889,
     3037, 7812, 1543, 6318, 5841, 8943, 4961, 2084, 8819, 5550, 630, 1585, 1543, 6380, 1163, 6910, 1541, 6901, 9047, 9024,
     2638, 1905, 6695, 976, 3057, 2634, 1524, 3942, 765, 538, 3274, 1368, 3015, 774, 1215, 5173, 476, 8321, 2345, 1285,
     421, 9116, 3112, 526, 7309, 8048, 7047, 5683, 3454, 7628, 5172, 4180, 899, 1143, 6457, 9997, 5486, 9558, 5214, 8083,
     8204, 2878, 7407, 7471, 8948, 755, 4886, 5108, 8198, 8792, 9234, 6292, 7156, 3734, 8700, 6983, 985, 6065, 8281, 9382,
     1787, 3941, 6856, 589, 7400, 1158, 1185, 4311, 6777, 9556, 1149, 3871, 392, 4343, 2316, 5739, 7883, 4183, 4623, 1070,
     7548, 8043, 8492, 5534, 2423, 8324, 5219, 5050, 6480, 4211, 7638, 7951, 4966, 6387, 7675, 413, 6342, 7374, 9391, 5425,
     6747, 8559, 6953, 8123, 3972, 3556, 4003, 360, 4666, 3848, 8061, 3736, 1925, 2369, 3398, 366, 6547, 9486, 6933, 6946,
     9431, 4120, 4871, 5079, 8281, 2156, 792, 8718, 3815, 3370, 3007, 2199, 5182, 1781, 4471, 9478, 3813, 5931, 6950, 5904,
     7786, 1277, 5692, 7246, 550, 7976, 6676, 1076, 7239, 7710, 4167, 463, 1692, 6752, 3796, 9296, 3230, 6507, 3340, 4654,
     1818, 3464, 9562, 7974, 5194, 402, 6954, 2308, 8241, 2214, 1902, 7089, 2003, 8154, 1299, 9347, 4992, 2966, 4910, 9673,
     5197, 7937, 7154, 2355, 951, 5275, 7954, 2999, 2640, 4028, 6894, 7931, 1808, 6951, 7719, 755, 7949, 9445, 8458, 1490,
     1165, 1981, 513, 6227, 6118, 6688, 736, 8992, 4816, 2478, 634, 3049, 7983, 8523, 1598, 98, 6617, 2826, 625, 6919,
     5838, 7266, 8483, 8530, 9582, 2912, 8372, 9351, 5304, 9204, 6538, 3232, 3250, 6418, 7055, 8383, 7905, 1828, 5028, 1080,
     2907, 1505, 2124, 823, 6198, 8792, 4453, 4579, 9365, 9578, 990, 153, 7934, 9799, 5679, 7603, 8060, 1382, 9649, 7198,
     7297, 7544, 1517, 5331, 7639, 4174, 4728, 6052, 7436, 1358, 677, 6469, 313, 2914, 1811, 8493, 2605, 4843, 6601, 2139,
     5767, 2890, 6449, 1277, 6031, 2517, 4881, 7802, 8792, 6933, 4687, 9210, 1491, 2559, 851, 1607, 4177, 1818, 1869, 6279,
     9028, 1083, 5813, 7836, 3687, 2476, 4512, 4996, 301, 3181, 3183, 2253, 9233, 3774, 4135, 3281, 5450, 6263, 4146, 9330,
     922, 8988, 4980, 8912, 5639, 689, 2335, 1172, 6783, 2075, 6824, 2938, 9402, 6385, 739, 9624, 2434, 6062, 846, 3489,
     3168, 7989, 8992, 9393, 1440, 7906, 9841, 1462, 5440, 7798, 147, 6317, 3726, 3772, 3395, 7155, 5453, 655, 8802, 9353,
     191, 9118, 3926, 6288, 8409, 8534, 1637, 8425, 7775, 5777, 3027, 585, 4626, 9776, 8060, 6749, 8479, 7119, 2128, 5327,
     2146, 526, 1500, 5928, 4520, 7767, 6846, 7270, 5852, 2125, 1475, 7522, 2219, 3698, 8963, 9691, 7801, 5431, 4916, 792,
     6577, 2490, 4723, 4243, 4013, 1355, 1539, 9910, 5263, 3150, 6019, 407, 2438, 8707, 8860, 9324, 9016, 5228, 8704, 9751,
     6470, 9099, 8367, 5832, 584, 6393, 3331, 9042, 7843, 611, 5237, 244, 2816, 4007, 448, 5463, 3691, 370, 1502, 5510,
     2407, 7636, 7303, 3207, 3097, 9764, 1934, 7506, 6399, 2862, 7381, 736, 1674, 2501, 7571, 4598, 9898, 33, 163, 7189,
     9412, 8042, 8881, 2469, 3814, 2277, 8966, 657, 7718, 4113, 6857, 2940, 2736, 5980, 3980, 8655, 2885, 3806, 6485, 4731,
     9534, 8020, 8308, 4158, 7413, 9864, 121, 4452, 5503, 2959, 460, 8689, 6834, 3534, 1854, 9305, 7821, 6241, 5743, 746,
     435, 309, 7254, 3971, 5266, 7839, 8726, 5427, 943, 6594, 3429, 9324, 3527, 4141, 2590, 7721, 8794, 3337, 2900, 2851,
     6610, 1771, 9302, 4772, 9431, 6861, 9929, 6010, 2680, 1588, 2938, 4589, 4295, 2549, 319, 7334, 4806, 3278, 5368, 6155,
     3875, 4019, 9984, 8608, 4338, 90, 444, 9451, 6033, 4246, 8384, 9154, 8285, 1985, 1257, 1360, 7999, 6939, 1039, 3475,
     5605, 2148, 1831, 3188, 4541, 8140, 8605, 5031, 3077, 7117, 6912, 1436, 8059, 2277, 5331, 3690, 9973, 9004, 1515, 2978,
     9809, 2007, 8338, 1818, 9997, 5476, 9743, 7950, 1903, 9931, 37, 3402, 1163, 6896, 8007, 4182, 6261, 8372, 1946, 6297,
     1134, 2971, 2710, 280, 2749, 1879, 618, 31, 7229, 3144, 4096, 4952, 172, 9018, 9806, 798, 3392, 1399, 6883, 1837,
     3044, 2790, 4046, 5151, 1340, 9649, 1185, 6825, 6338, 243, 4472, 8546, 3434, 385, 6327, 5588, 107, 5434, 7760, 1044,
     5284, 5668, 4988, 3674, 2940, 2710, 8102, 8208, 9802, 2001, 9113, 3748, 5219, 7003, 5464, 3983, 426, 2807, 9162, 4449,
     8511, 8417, 7182, 9122, 4017, 4365, 7899, 3381, 8899, 6138, 4340, 1705, 3041, 7946, 3625, 179, 9245, 2009, 9600, 5763,
     2313, 9506, 7814, 279, 5764, 3777, 9871, 3033, 3435, 6631, 7714, 7317, 6331, 1988, 7179, 4719, 9059, 9930, 2393, 1567,
     3557, 8731, 5532, 2738, 3239, 2794, 5824, 5645, 3407, 4185, 3049, 7188, 1993, 1418, 8236, 6983, 238, 8204, 6656, 2642,
     9657, 5355, 134, 3674, 7229, 8772, 8351, 2425, 8100, 2593, 6080, 3923, 2647, 5217, 2036, 7659, 1900, 1316, 4688, 3329,
     9292, 2126, 4559, 7151, 9290, 7050, 9468, 6002, 7389, 3990, 2412, 1518, 1730, 2696, 9465, 6089, 133, 5443, 3314, 3179,
     8053, 628, 3023, 5738, 4998, 978, 8199, 9058, 4302, 2895, 9562, 8024, 2687, 2001, 3095, 5900, 614, 8953, 1557, 9275,
     6064, 9465, 1521, 9970, 6461, 3786, 1627, 183, 7362, 8031, 1524, 4573, 766, 1461, 6554, 6861, 9507, 341, 7104, 9594,
     2831, 8179, 20, 813, 6599, 4823, 2184, 9277, 5605, 9431, 4055, 1644, 2979, 1549, 1648, 7619, 9911, 1876, 395, 8523,
     7384, 8330, 6759, 2194, 8374, 5919, 7571, 5040, 1105, 5093, 3258, 108, 7515, 1948, 2254, 8775, 3165, 4663, 7867, 1803,
     7262, 7558, 5912, 7211, 9609, 9600, 8807, 400, 5979, 386, 3601, 3079, 1824, 1265, 7955, 1152, 2704, 4414, 4817, 1756,
     154, 2082, 7453, 1360, 3013, 3843, 8120, 6438, 8375, 164, 2737, 8946, 3762, 6224, 9102, 6376, 9501, 9086, 2213, 8921,
     4373, 3051, 5975, 6484, 5522, 4775, 5828, 8442, 9991, 9688, 133, 2449, 6289, 6908, 6737, 6974, 4005, 7032, 141, 7295,
     2923, 1179, 9288, 981, 3787, 2476, 3741, 3983, 7570, 5993, 6113, 2019, 5607, 1693, 6931, 2101, 4966, 7344, 8805, 8437,
     3083, 9738, 1954, 5320, 4166, 6076, 509, 1054, 4818, 2417, 6780, 2786, 3506, 8438, 4460, 7469, 7611, 3972, 1059, 801,
     2509, 7281, 849, 9775, 3082, 1541, 5289, 5844, 1177, 2903, 8728, 5972, 1130, 5282, 1205, 8937, 9603, 0, 72, 4922,
     5251, 8608, 2003, 5741, 8031, 4203, 2033, 8271, 2313, 3188, 1106, 5670, 5683, 901, 8685, 9736, 9691, 5854, 2259, 5961,
     23, 1158, 6035, 4408, 7702, 2561, 302, 8287, 2626, 5205, 3055, 6894, 2682, 3201, 1878, 6912, 3782, 2220, 3859, 7184,
     9891, 4583, 2092, 7836, 5146, 165, 8324, 7741, 4122, 2791, 3005, 8063, 8572, 3838, 7413, 501, 8652, 638, 1453, 8783,
     8085, 1948, 4002, 8426, 3587, 8037, 1138, 7653, 9960, 3418, 8718, 2520, 1000, 1886, 2833, 4683, 8651, 3198, 2656, 6395,
     5620, 7317, 4531, 6743, 5997, 4947, 2929, 1274, 5177, 2151, 7392, 3891, 1146, 5818, 5424, 4979, 2695, 7472, 9082, 5722,
     4262, 2033, 4982, 9412, 8234, 6744, 169, 5356, 8361, 4174, 5842, 403, 9664, 397, 6305, 2151, 7650, 1305, 4875, 9762,
     9428, 2711, 522, 4022, 6751, 1090, 3672, 7584, 7437, 599, 2534, 5673, 5867, 4694, 8820, 3646, 8900, 3610, 9843, 9292,
     4422, 3540, 5775, 1522, 3056, 5484, 9161, 1108, 9690, 275, 1243, 7243, 4388, 9128, 9626, 2537, 7202, 4042, 3259, 6852,
     2023, 3193, 9445, 2686, 5348, 1549, 4933, 9397, 7292, 4056, 1728, 9670, 3726, 1052, 865, 1477, 7738, 7913, 2216, 6465,
     7190, 6500, 6817, 1268, 3488, 1486, 7160, 8095, 5574, 1380, 3871, 3349, 2012, 2583, 7714, 4571, 1705, 2452, 1972, 3938,
     2971, 4894, 9771, 6287, 3565, 7289, 6812, 4008, 6738, 9513, 5348, 2133, 7365, 6740, 9139, 2954, 4373, 5823, 7893, 9137,
     1304, 1917, 7182, 1808, 5832, 4828, 6897, 1163, 9617, 758, 2915, 5647, 2363, 106, 8980, 5610, 4762, 3722, 73, 7821,
     339, 3695, 2365, 4505, 7372, 3491, 6020, 110, 1724, 3341, 7258, 4281, 3917, 6393, 1221, 1851, 7108, 9665, 6336, 7378,
     8883, 4434, 3595, 9106, 7080, 6803, 3311, 9138, 4650, 8942, 635, 9224, 2524, 801, 2724, 4390, 3967, 2038, 4350, 7365,
     7511, 3753, 8819, 7467, 304, 2399, 294, 4143, 815, 369, 2176, 7969, 5951, 1107, 1071, 4061, 7197, 1970, 2003, 8177,
     6663, 3362, 3748, 2874, 6755, 6412, 7961, 1845, 5573, 2662, 192, 7918, 3479, 9199, 8582, 5691, 1917, 1059, 6280, 4549,
     935, 7545, 9831, 8084, 9834, 2749, 4454, 3981, 1607, 8100, 5252, 2767, 3715, 6063, 8400, 9505, 5693, 351, 8546, 3903,
     6880, 6018, 7147, 747, 6184, 8361, 1794, 9366, 7487, 1291, 989, 7821, 7289, 9573, 7405, 7617, 2163, 5962, 1287, 792,
     7496, 979, 3284, 6354, 3816, 6988, 5266, 7233, 1314, 790, 7482, 7827, 4245, 329, 6736, 303, 6496, 1103, 4845, 4351,
     405, 848, 9990, 4361, 3261, 8299, 6103, 9201, 5835, 5197, 890, 6767, 570, 8606, 2689, 7505, 2730, 7607, 4525, 7706,
     555, 9601, 9296, 4750, 8952, 5, 3446, 47, 3161, 724, 486, 4278, 1539, 7970, 8415, 9463, 8204, 8613, 4247, 6685,
     9584, 6018, 1651, 2132, 9538, 2382, 5714, 5989, 6626, 8570, 8319, 3190, 5788, 4407, 1443, 4981, 5493, 7903, 3077, 1374,
     2391, 6823, 1120, 7657, 8517, 495, 3157, 7776, 5968, 7584, 6484, 5877, 9521, 9097, 5314, 8679, 107, 4389, 7766, 9346,
     3461, 2472, 7291, 1859, 3415, 1332, 8953, 2466, 2547, 4746, 6039, 9342, 7254, 6575, 3244, 2370, 6225, 6530, 3855, 3902,
     1739, 8730, 2183, 9908, 6764, 7271, 6753, 6948, 5921, 9030, 3413, 72, 8219, 3160, 2123, 4103, 3450, 2446, 9565, 9897,
     6619, 158, 6052, 7921, 9983, 1423, 5379, 5778, 8429, 7566, 6872, 4965, 8890, 7741, 1296, 4974, 5413, 2052, 323, 6407,
     7337, 2107, 8518, 3414, 8790, 641, 43, 3594, 6337, 8993, 979, 5058, 2650, 5596, 606, 1833, 5371, 6182, 100, 4991,
     5501, 1104, 3041, 7388, 684, 5396, 3794, 5633, 7728, 4977, 8024, 8408, 5074, 5240, 5523, 9233, 8026, 1179, 1819, 3437,
     1365, 4730, 9004, 4974, 9324, 1682, 5820, 3392, 6124, 3198, 6706, 2923, 1593, 2019, 3351, 1471, 8594, 594, 5276, 3242,
     7085, 6096, 157, 8816, 6227, 5394, 5539, 609, 1919, 235, 1516, 2916, 6642, 2641, 4747, 9721, 3800, 4868, 5008, 4868,
     9415, 4880, 7955, 5284, 5360, 4330, 8732, 7750, 2395, 5801, 6142, 3701, 3215, 5967, 2230, 8390, 3010, 6370, 3411, 5674,
     3655, 4429, 7961, 4474, 3012, 2351, 2048, 5864, 6184, 5629, 6844, 9014, 9947, 4814, 9745, 202, 6664, 3918, 5072, 9703,
     5067, 6961, 5423, 1460, 2522, 8673, 55, 1065, 7643, 562, 8952, 4426, 6769, 5011, 9856, 4197, 9533, 8520, 6681, 495,
     1061, 2057, 701, 7159, 7743, 7513, 9196, 5696, 2795, 4396, 5533, 6426, 5926, 2118, 6734, 2053, 4400, 9281, 9012, 7914,
     7721, 8305, 8529, 8346, 9338, 2025, 6852, 8595, 6813, 2397, 8479, 1330, 8448, 3131, 9110, 4698, 2673, 9860, 7327, 4727,
     4549, 438, 136, 9741, 6212, 9082, 4753, 5420, 779, 266, 9513, 7064, 6072, 1683, 382, 802, 6007, 5159, 4977, 9178,
     4915, 3796, 9849, 6470, 9732, 5298, 4654, 5655, 7081, 565, 9369, 5848, 1757, 5901, 3594, 6628, 8000, 1732, 8651, 8271,
     344, 898, 8914, 5126, 7726, 1306, 2682, 6638, 8926, 7436, 5096, 9955, 2692, 3112, 9441, 8724, 2472, 3664, 6375, 9302,
     6983, 5043, 1331, 9839, 1138, 8525, 2791, 6281, 2605, 4385, 2986, 1643, 8771, 3078, 3040, 2793, 6825, 9042, 5774, 7505,
     6515, 6051, 7020, 4859, 26, 8676, 4967, 5224, 8529, 716, 4416, 1696, 9660, 7101, 1254, 270, 3424, 6485, 9507, 814,
     1616, 9793, 3300, 2243, 9407, 2052, 5549, 3483, 2723, 3647, 8378, 7751, 6238, 5053, 3073, 6332, 4885, 59, 7919, 8995,
     1493, 1689, 5402, 4506, 4201, 5769, 3663, 4185, 1974, 3748, 5829, 4837, 6417, 8267, 5443, 5430, 8866, 8049, 2746, 5871,
     2922, 820, 235, 3461, 3119, 9526, 954, 9950, 3834, 6459, 7370, 9558, 9330, 9346, 7149, 1277, 522, 6785, 4465, 9757,
     5909, 1997, 4053, 4012, 5239, 3717, 2866, 8175, 1256, 555, 8027, 5979, 6450, 6665, 1835, 3775, 851, 3566, 5879, 8361,
     6987, 242, 9085, 6272, 1147, 6562, 2145, 6785, 6590, 2320, 9143, 2756, 818, 8530, 6528, 7510, 629, 5820, 9647, 7250,
     5335, 9061, 6720, 1959, 2330, 9379, 1477, 7398, 7545, 5014, 8561, 9052, 7869, 73, 9559, 9980, 3726, 7982, 3313, 1838,
     1285, 6224, 5849, 1010, 4464, 3631, 9780, 988, 8067, 4160, 5752, 893, 1628, 7637, 7683, 1000, 909, 8520, 2749, 6785,
     6296, 3273, 6417, 6054, 548, 1356, 9403, 2991, 4643, 2683, 217, 8702, 7897, 5476, 2890, 7676, 4219, 3978, 7706, 5936,
     4081, 8253, 580, 8815, 7175, 5863, 5488, 3904, 1729, 8161, 4336, 9543, 3663, 4070, 1570, 5885, 7829, 4938, 6400, 5033,
     4661, 6678, 5746, 6829, 6016, 1919, 8004, 8066, 6020, 3142, 2083, 2917, 3343, 2386, 289, 7464, 5782, 5009, 6262, 4584,
     477, 1919, 1917, 3605, 7803, 8032, 3949, 4490, 7973, 2109, 4941, 7570, 9210, 3763, 2253, 1464, 7922, 6751, 107, 1850,
     4780, 3688, 5127, 5209, 2623, 3242, 5230, 7088, 9482, 1981, 4957, 3654, 1604, 3891, 4336, 1807, 8934, 8958, 1699, 3222,
     695, 3527, 9093, 309, 6804, 3535, 1644, 2751, 5190, 7875, 3723, 8634, 3131, 4597, 4360, 2540, 7328, 360, 3028, 6284,
     844, 2671, 1870, 8867, 2061, 3355, 3707, 1892, 5345, 8441, 897, 7005, 6395, 3690, 7825, 3180, 7141, 3068, 5744, 9743,
     1921, 2864, 4443, 5507, 2132, 957, 1805, 5382, 3352, 8459, 6337, 3150, 6545, 8336, 195, 1012, 2099, 2969, 3910, 9349,
     6496, 7867, 6152, 3539, 2437, 2300, 7357, 7006, 9248, 3410, 1996, 5454, 3374, 2497, 2441, 6028, 6465, 7288, 7159, 6998,
     2462, 138, 5897, 6818, 2813, 4562, 8509, 3844, 9595, 7233, 4827, 331, 262, 6318, 5450, 4586, 2182, 9969, 3653, 1377,
     4326, 6874, 3762, 8534, 7123, 6185, 1114, 2774, 2718, 6116, 7067, 6328, 5909, 3326, 9854, 6271, 7255, 5622, 9543, 3600,
     9410, 3023, 3511, 5455, 7391, 4563, 4390, 3132, 2126, 4507, 3873, 7756, 2589, 2300, 8594, 5681, 7668, 6728, 8438, 6850,
     2422, 3329, 4374, 9476, 9259, 5969, 4099, 634, 9609, 5210, 7398, 3537, 1717, 4598, 1492, 6883, 1606, 2580, 7154, 4730,
     7534, 8019, 1879, 9169, 4956, 1155, 7432, 8891, 1741, 5803, 826, 8797, 375, 3147, 502, 6757, 625, 6113, 3545, 1953,
     5691, 9302, 4758, 9745, 7593, 8970, 2628, 5046, 6344, 9920, 5111, 6190, 4349, 4826, 4486, 5383, 9472, 8235, 1118, 8712,
     5895, 651, 3778, 1222, 4751, 9880, 9116, 2181, 2838, 1950, 9477, 7636, 5316, 3315, 4814, 3932, 8082, 924, 8353, 360,
     3217, 8636, 127, 9667, 4447, 3644, 3868, 3081, 8033, 7444, 8674, 7816, 5030, 8399, 6999, 5746, 1729, 4908, 1853, 7873,
     6029, 7516, 6429, 1844, 8327, 7023, 9617, 6147, 9448, 1390, 913, 2083, 2800, 5684, 200, 2013, 7912, 6555, 5970, 8667,
     5771, 8275, 7373, 8072, 9884, 9842, 8794, 9337, 4037, 9351, 5230, 6680, 4087, 9303, 2766, 7507, 4760, 1087, 9972, 9847,
     2130, 5320, 8976, 573, 1446, 2936, 7901, 6302, 8448, 1184, 4573, 9911, 2161, 2725, 6921, 8325, 4594, 2641, 155, 2337,
     9315, 4976, 3919, 3143, 3968, 5630, 7501, 9394, 153, 9717, 2, 1473, 4558, 6014, 8308, 371, 6105, 5098, 5145, 3830,
     4981, 7673, 4249, 9041, 5924, 5919, 5325, 3057, 5792, 4997, 6009, 2096, 5795, 2625, 8556, 2925, 3426, 4049, 6785, 355,
     7982, 3113, 9897, 8916, 9302, 8030, 8291, 7508, 3205, 3413, 8663, 3825, 3552, 8254, 4216, 6582, 6092, 3217, 2567, 3993,
     4449, 5380, 6048, 6488, 5138, 7854, 56, 3875, 3477, 6550, 369, 4904, 9141, 4200, 1219, 9228, 9903, 839, 1485, 5609,
     3774, 5519, 142, 7625, 2734, 7401, 9980, 2048, 7641, 5169, 8724, 1921, 4014, 2040, 779, 859, 9617, 5456, 1903, 5168,
     8716, 539, 7478, 7393, 9485, 696, 5698, 5177, 4675, 1336, 7631, 4902, 5147, 7052, 3574, 5699, 1583, 1056, 3994, 7689,
     301, 5328, 3293, 8389, 3736, 7283, 6619, 9587, 8628, 5814, 960, 2024, 4091, 5841, 4864, 6549, 6931, 1924, 3757, 9987,
     7888, 1337, 3539, 7730, 2493, 7550, 2512, 431, 1588, 1593, 4312, 9583, 3040, 7832, 7219, 2670, 1284, 7250, 4401, 5036,
     3211, 6074, 4790, 7460, 6512, 5593, 3918, 1695, 3838, 9477, 5840, 5695, 5453, 8668, 3391, 9126, 8403, 9494, 6364, 1570,
     2493, 3468, 7495, 694, 7911, 5920, 9601, 4761, 7479, 3816, 7144, 2974, 1140, 8616, 2098, 9386, 9676, 7065, 9073, 7733,
     2231, 6963, 2313, 2512, 4134, 9771, 4059, 8514, 8055, 1143, 3309, 5967, 4603, 2229, 7419, 5405, 3007, 6290, 7826, 3627,
     318, 5576, 2886, 7170, 1242, 7070, 1883, 2463, 9239, 9238, 575, 6751, 3719, 8897, 852, 4898, 8528, 2308, 9253, 4257,
     4031, 8764, 3456, 644, 8323, 6001, 6768, 7734, 4466, 2666, 2245, 813, 4444, 1491, 1428, 1646, 6551, 5657, 964, 8175,
     1095, 9011, 4819, 5792, 9569, 3533, 4098, 3545, 3720, 3120, 6800, 4773, 1429, 1334, 6947, 4186, 1250, 2345, 3118, 6090,
     4150, 3210, 5967, 3859, 5552, 2670, 639, 1957, 9888, 4162, 7223, 315, 4333, 5281, 9789, 4309, 5187, 6153, 8242, 9183,
     199, 9870, 6075, 3465, 9535, 7172, 4922, 5878, 5881, 2812, 9677, 900, 471, 2003, 2116, 7101, 4044, 2261, 9212, 7546,
     96, 3709, 3428, 6447, 8407, 1862, 2419, 7847, 3687, 8530, 903, 2225, 7244, 1238, 3129, 9875, 3869, 8142, 7122, 8945,
     9789, 4653, 3731, 9033, 6060, 4967, 2348, 738, 8149, 1123, 8687, 4132, 8969, 2858, 9308, 9448, 2042, 4094, 7691, 8919,
     6655, 2080, 7867, 7306, 275, 2530, 1270, 5874, 1709, 8799, 8779, 5869, 7884, 6102, 4535, 2004, 702, 7010, 3944, 6041,
     3219, 1777, 4673, 4652, 7751, 6516, 7883, 1657, 4642, 1037, 9368, 9458, 6774, 1219, 6664, 793, 8542, 3116, 2684, 9412,
     8980, 9763, 3377, 9697, 8837, 865, 3414, 3936, 1791, 8344, 6138, 4286, 4471, 4554, 5209, 7565, 7595, 5151, 1833, 1848,
     566, 1251, 9116, 8447, 2536, 6719, 2862, 1355, 8569, 1277, 698, 7521, 6450, 8160, 6718, 9094, 5252, 7823, 9403, 6090,
     4298, 3032, 9506, 1025, 1835, 9371, 9015, 8902, 174, 8696, 6359, 7901, 4643, 685, 7529, 1610, 7115, 9660, 1860, 2568,
     2270, 5452, 3100, 2311, 7130, 3724, 8096, 6736, 1985, 3501, 2103, 8967, 1735, 8471, 2184, 7095, 1985, 6406, 3972, 9115,
     3436, 1306, 7451, 245, 5930, 2050, 9485, 4528, 1158, 3273, 4438, 5999, 254, 5666, 7211, 9660, 8815, 9076, 4943, 7780,
     71, 4643, 8873, 504, 1363, 6788, 8650, 3950, 680, 4184, 332, 557, 1736, 2661, 2803, 7390, 6736, 7644, 2359, 858,
     1745, 5835, 698, 8995, 1191, 2047, 1353, 3469, 3118, 9617, 2336, 169, 7500, 1815, 9467, 448, 8672, 1875, 6485, 9668,
     4285, 3040, 7887, 2741, 3772, 30, 6383, 990, 4329, 8953, 8803, 7317, 1495, 2377, 5273, 9567, 1973, 4738, 5365, 6520,
     3058, 8343, 1252, 9289, 6220, 6496, 6459, 8212, 8387, 430, 1655, 5966, 5540, 5178, 7789, 8207, 1414, 5336, 3917, 1710,
     5032, 7436, 4697, 8373, 1020, 2092, 5871, 6447, 8660, 6341, 4511, 3639, 625, 1747, 3890, 2966, 9842, 8040, 2365, 3432,
     2885, 272, 181, 6239, 181, 124, 8900, 2876, 5898, 8431, 811, 6244, 4906, 6848, 8897, 7927, 2861, 8180, 5576, 8910,
     3454, 4167, 7592, 9243, 8943, 2467, 2369, 6216, 8977, 5744, 8409, 8863, 5181, 4094, 3371, 8054, 9709, 4983, 4247, 1450,
     5984, 903, 1055, 1823, 4674, 9809, 7639, 6425, 7583, 2547, 5351, 2108, 1263, 1670, 3304, 2576, 640, 1700, 3620, 9539,
     4741, 8071, 5442, 2552, 4173, 8632, 286, 2501, 22, 7099, 25, 3635, 8104, 3502, 5022, 9963, 3787, 3805, 3067, 3833,
     1044, 8481, 218, 3322, 171, 685, 788, 4423, 7549, 3892, 8119, 6940, 4738, 5180, 662, 7483, 2792, 6235, 3484, 6694,
     5491, 5392, 6361, 975, 831, 4299, 7140, 9418, 4126, 9045, 1787, 939, 7891, 1472, 8191, 1058, 8337, 4870, 5234, 9731,
     4937, 5985, 3693, 567, 4093, 2069, 2155, 9131, 2648, 7098, 1010, 920, 1728, 3070, 1993, 7641, 1118, 7594, 4902, 9498,
     957, 2135, 889, 8090, 9367, 8337, 7656, 2402, 776, 6314, 431, 9801, 3868, 5714, 1871, 4008, 2181, 5735, 7398, 8911,
     9606, 9345, 8575, 8161, 9093, 1139, 5333, 7840, 8322, 5588, 419, 9429, 3648, 9845, 1165, 1011, 7439, 7891, 9627, 8375,
     6190, 9370, 8146, 8659, 6226, 9374, 5054, 6259, 2192, 953, 8036, 3975, 4211, 3567, 5084, 4000, 3954, 8937, 306, 1159,
     2532, 46, 8179, 7610, 1827, 6421, 4580, 5257, 6725, 9772, 8063, 5229, 3200, 8886, 5376, 4763, 3396, 8622, 700, 4401,
     4919, 8905, 1380, 8977, 9421, 93, 482, 5473, 9062, 7941, 5506, 700, 3893, 3665, 8032, 5842, 767, 5509, 880, 2325,
     4938, 9005, 6851, 1842, 8589, 4573, 1070, 7567, 4909, 5589, 2789, 1031, 8307, 2382, 1946, 2307, 8199, 1820, 7402, 5680,
     2109, 3116, 9059, 805, 4411, 6664, 7601, 9276, 274, 9355, 2007, 452, 9920, 7819, 1771, 916, 4411, 6906, 8169, 8140,
     65, 1597, 7606, 5093, 7374, 6200, 1257, 5505, 5, 9494, 6609, 9186, 8752, 6335, 2750, 5508, 4317, 9463, 7038, 8638,
     2794, 4258, 6877, 2725, 9995, 3005, 5689, 9944, 6171, 1719, 8633, 9090, 8209, 6757, 2825, 4112, 9253, 8980, 3365, 6415,
     3697, 1113, 8971, 996, 1719, 1284, 5060, 2629, 1817, 794, 3266, 1594, 6441, 4994, 5335, 2863, 3244, 8140, 4013, 8719,
     5240, 1505, 3385, 3782, 6465, 6078, 4191, 6441, 7250, 7960, 35, 1549, 461, 4623, 4812, 8227, 2685, 1902, 3053, 6971,
     7504, 1385, 9803, 6710, 1708, 6730, 959, 4529, 5338, 4029, 3048, 5266, 8819, 3054, 2610, 9557, 7566, 1269, 7792, 8991,
     8265, 486, 6137, 709, 1564, 8994, 1022, 7292, 8691, 7165, 9739, 7369, 4065, 7646, 1546, 5360, 7553, 5931, 6463, 6487,
     3159, 4405, 2816, 9551, 5114, 4987, 594, 1318, 8416, 4206, 4647, 8847, 522, 9293, 1386, 3344, 8934, 3236, 9013, 8839,
     3057, 8525, 4525, 7952, 3684, 2847, 8685, 1529, 3781, 2409, 9975, 8715, 8959, 7417, 3924, 6048, 618, 1716, 9668, 1125,
     7725, 6197, 3908, 3661, 9084, 3886, 2249, 2380, 2516, 9729, 5243, 9762, 3798, 3997, 550, 4050, 6866, 6538, 9898, 7213,
     2713, 1586, 2192, 8887, 2599, 6976, 6079, 123, 9362, 4697, 1227, 1243, 2391, 2225, 261, 7595, 6758, 6738, 7155, 3013,
     7081, 9819, 3851, 8600, 1267, 5975, 7456, 9531, 9914, 9972, 1497, 5985, 136, 5542, 3250, 1568, 7844, 6563, 9176, 226,
     3956, 5228, 8420, 7228, 706, 8344, 1855, 9145, 5886, 6843, 3002, 5872, 5151, 5504, 3339, 9922, 7894, 8913, 1884, 3467,
     1581, 5045, 9848, 8800, 3613, 1595, 3545, 7551, 8475, 5820, 7410, 3868, 5100, 2296, 712, 898, 8396, 2350, 4110, 6269,
     552, 2370, 1030, 7455, 1375, 4832, 6795, 3753, 3462, 3739, 7700, 9058, 2617, 8360, 5844, 5563, 891, 4737, 4604, 7648,
     797, 2938, 4842, 5863, 2925, 2263, 2425, 3938, 367, 6677, 8202, 7754, 9654, 6287, 4065, 6437, 4092, 503, 59, 7654,
     7709, 67, 7317, 3403, 1931, 1890, 6613, 5806, 8696, 4819, 4877, 7158, 1528, 7993, 9419, 8072, 2503, 1767, 5156, 9548,
     6414, 1859, 4610, 4513, 1609, 4759, 9121, 4308, 291, 8327, 5314, 8957, 7485, 4690, 7275, 8991, 5117, 7930, 7708, 6992,
     6339, 4240, 9709, 6788, 8484, 8595, 2358, 2514, 2000, 5599, 6422, 5341, 5488, 4664, 2527, 7822, 5452, 1317, 6694, 5633,
     5262, 7314, 1489, 8174, 1544, 6333, 2955, 618, 844, 4830, 4698, 8324, 3184, 3181, 8950, 4379, 5099, 5253, 219, 1056,
     5185, 1304, 8616, 5279, 1288, 3165, 9846, 8841, 1120, 7829, 8717, 3149, 786, 3979, 948, 6109, 1313, 3844, 9619, 6130,
     5776, 3913, 9201, 1186, 621, 5259, 5396, 1781, 6094, 7617, 9239, 6074, 9020, 3599, 1539, 7426, 1116, 6781, 3775, 728,
     3331, 7977, 6492, 3750, 187, 6962, 7057, 1035, 8386, 6943, 659, 4355, 6013, 7653, 5876, 4865, 8328, 7516, 679, 8150,
     5727, 1837, 6034, 2474, 3042, 5975, 6606, 4179, 8313, 5869, 7430, 699, 9868, 5170, 3073, 1002, 6657, 1508, 9603, 1127,
     3601, 9090, 234, 8522, 2296, 2465, 5551, 6885, 460, 5457, 3294, 3990, 7081, 5248, 2349, 3872, 3548, 7941, 3312, 7223,
     4672, 6701, 6098, 1496, 8281, 8128, 1663, 7253, 7792, 7688, 8569, 4058, 8084, 9420, 8146, 5252, 2661, 8447, 4073, 5531,
     4279, 8994, 8835, 8933, 159, 84, 8780, 8274, 2097, 8316, 6859, 280, 6348, 7341, 7578, 3863, 6816, 7759, 5126, 7938,
     4107, 8560, 500, 9786, 9878, 2029, 7683, 6167, 8520, 2204, 6408, 874, 561, 9226, 4741, 273, 9686, 6195, 8098, 5754,
     4259, 6901, 1862, 9801, 2414, 6487, 9175, 346, 314, 9745, 9871, 497, 2829, 5121, 9878, 3767, 8205, 3165, 151, 366,
     7039, 4167, 9208, 7100, 8062, 9364, 6910, 2131, 4012, 4000, 5905, 2175, 5983, 3556, 179, 3748, 1886, 756, 4766, 2273,
     2879, 6488, 7840, 2513, 4440, 9986, 6072, 3962, 1591, 4410, 548, 4865, 3597, 8068, 3971, 5697, 4575, 2463, 4076, 7183,
     6388, 3479, 1248, 3202, 7193, 4167, 4822, 1907, 5778, 199, 2011, 3836, 7151, 3118, 1234, 9520, 204, 1679, 2897, 6296,
     2298, 2432, 8281, 9508, 7435, 598, 7928, 5827, 2971, 7150, 6340, 8171, 2345, 3181, 2875, 1983, 9542, 5057, 1547, 4376,
     7410, 9920, 8921, 378, 1267, 8831, 1095, 2068, 6725, 7466, 2206, 2909, 7613, 903, 5269, 4486, 9382, 9891, 4130, 8194,
     712, 6072, 4492, 8941, 2327, 4402, 4915, 1432, 3132, 8836, 8915, 5986, 9612, 7844, 2314, 2597, 5210, 3210, 6062, 1191,
     7690, 725, 3075, 7035, 1399, 7064, 3886, 3208, 3215, 9768, 9907, 6648, 5079, 3777, 1603, 657, 3918, 1303, 6147, 3675,
     801, 4830, 5050, 8179, 7029, 6239, 4905, 2117, 2500, 6804, 4290, 7498, 9759, 1517, 1358, 3274, 4112, 1515, 3645, 7417,
     724, 4903, 10, 1976, 7588, 5095, 9033, 4166, 6598, 3459, 8445, 5543, 2614, 6834, 7892, 6623, 1702, 2823, 3269, 5704,
     5035, 1217, 4106, 1001, 1515, 8452, 4447, 9446, 8675, 1687, 4084, 6260, 3340, 9764, 6020, 7163, 7112, 8968, 5808, 7962,
     6214, 7612, 9995, 2817, 9428, 8657, 4606, 3818, 8787, 8200, 9905, 6260, 3051, 8667, 2077, 7258, 9854, 574, 5248, 1664,
     6039, 4334, 7466, 8602, 1300, 453, 8603, 6070, 1639, 1275, 2763, 1958, 5163, 1929, 1989, 1814, 5366, 3402, 9713, 9884,
     5000, 1521, 2820, 317, 5651, 5581, 1034, 8993, 1865, 4862, 9730, 6199, 845, 83, 6180, 3802, 795, 2238, 4264, 8240,
     5328, 1527, 2164, 1433, 7539, 8050, 4466, 9906, 3039, 8813, 9096, 8496, 1299, 3822, 440, 5666, 6002, 6483, 8590, 9229,
     9095, 7825, 4970, 5121, 3236, 9516, 2947, 594, 2146, 4867, 6437, 6151, 8579, 3901, 5253, 8593, 3325, 798, 8350, 7271,
     9855, 3723, 4490, 8387, 9441, 233, 8819, 5585, 5649, 3718, 4547, 169, 572, 6085, 5039, 7897, 629, 6618, 7910, 513,
     697, 4871, 3865, 8960, 5040, 3133, 1385, 2338, 1647, 3303, 6739, 9040, 5416, 4916, 5891, 4504, 116, 6152, 1034, 474,
     5798, 406, 6915, 7145, 247, 2661, 2246, 7602, 2601, 7228, 5383, 3770, 9818, 1097, 7999, 9946, 4209, 2052, 5884, 3902,
     9774, 193, 5600, 6432, 8748, 6620, 7804, 1468, 3711, 9414, 8545, 998, 67, 3237, 4747, 5896, 5168, 5173, 9087, 4274,
     7025, 1982, 6924, 1311, 7840, 8979, 2374, 3891, 1977, 8590, 7024, 5804, 5225, 3046, 2018, 5626, 9496, 9951, 5118, 9792,
     4254, 6485, 1084, 6146, 8887, 5077, 3930, 3346, 9652, 1262, 406, 7219, 5611, 6749, 6032, 570, 8339, 9683, 7520, 1389,
     1102, 5084, 5727, 5695, 9854, 1755, 2766, 572, 9033, 6600, 5234, 7976, 5042, 1041, 8320, 2915, 7734, 8217, 8876, 787,
     4134, 55, 6209, 262, 1001, 9150, 88, 4269, 8133, 1806, 3316, 1167, 2900, 8335, 1678, 6685, 1241, 5207, 3420, 524,
     6317, 3010, 5606, 5741, 2908, 4095, 5522, 9007, 9155, 5823, 8391, 7720, 8967, 3360, 6006, 9858, 9427, 9540, 5638, 8873,
     557, 3270, 6097, 8877, 3188, 1193, 1584, 1910, 4736, 9800, 2345, 7922, 7682, 915, 4164, 9800, 7980, 7383, 1640, 341,
     1099, 4848, 277, 333, 3863, 3597, 9550, 9164, 270, 1650, 8188, 4459, 5478, 4534, 3621, 2218, 7237, 9361, 5203, 9992,
     5111, 3608, 8482, 3621, 4129, 8729, 3814, 9516, 6110, 3158, 1566, 5291, 5737, 8181, 7302, 6762, 7719, 2945, 6876, 9139,
     4377, 7955, 320, 8669, 5676, 5722, 6166, 9475, 851, 1829, 9897, 1860, 2862, 7195, 3453, 2310, 9378, 8226, 8271, 3524,
     3445, 4712, 3342, 8825, 2059, 2761, 6362, 7114, 8890, 5116, 2152, 2314, 2359, 5752, 6484, 958, 4273, 4030, 4408, 455,
     8432, 8437, 1845, 9067, 1572, 9606, 7755, 2157, 5460, 7870, 643, 7430, 7161, 8099, 7188, 4024, 351, 178, 1051, 2828,
     1407, 7231, 2144, 1098, 7202, 9536, 944, 6801, 228, 6511, 8793, 9317, 5287, 2949, 1221, 6876, 1392, 8786, 6673, 9463,
     605, 7077, 3106, 8672, 24, 7935, 9458, 9459, 9042, 1896, 3994, 1293, 933, 1323, 3259, 3680, 2685, 2806, 1964, 5838,
     2397, 46, 726, 6287, 2119, 1872, 5035, 4393, 8123, 3962, 8533, 4354, 9567, 4364, 5296, 204, 3773, 2743, 1128, 2800,
     2673, 2080, 2479, 1360, 4984, 7041, 2844, 1095, 2702, 1983, 96, 180, 6262, 4392, 9093, 6575, 2574, 6101, 3557, 7713,
     7325, 6355, 4761, 7478, 8651, 6247, 2231, 2971, 2069, 2463, 6732, 2864, 5834, 8129, 6636, 1915, 12, 5823, 5395, 9759,
     4805, 5009, 1965, 9675, 5663, 5464, 4254, 7198, 7654, 3635, 3068, 7413, 6687, 1130, 4131, 1087, 2702, 6667, 3122, 8501,
     854, 2215, 1078, 9021, 990, 9160, 6116, 9109, 8757, 8232, 5327, 3174, 1811, 9312, 7009, 5963, 9962, 2188, 5784, 9908,
     1491, 385, 8619, 7975, 8848, 254, 3816, 7086, 9830, 8778, 2358, 7528, 8849, 6560, 3221, 7323, 2205, 5923, 1929, 2024,
     7832, 8301, 6155, 7576, 6241, 9667, 5355, 7098, 3603, 1638, 6560, 889, 2352, 5450, 9785, 7196, 1901, 2717, 5637, 3140,
     148, 6295, 6510, 8751, 3923, 7546, 4504, 4857, 6369, 8981, 6758, 4611, 4643, 1869, 7158, 2898, 8794, 5513, 2749, 530,
     9493, 6913, 3847, 2829, 1117, 8879, 8281, 4308, 9198, 8447, 5917, 1444, 5092, 4217, 6623, 2962, 9064, 7355, 5384, 5346,
     2893, 2968, 2373, 3845, 6038, 620, 9349, 8854, 7216, 6794, 2591, 418, 7843, 1687, 853, 1821, 9573, 4596, 9028, 3855,
     7705, 181, 1099, 6749, 8795, 4651, 236, 3330, 2020, 7994, 9596, 9208, 181, 8539, 2287, 1561, 5398, 7327, 6831, 5468,
     8515, 3400, 1911, 7941, 5341, 348, 6968, 7526, 7285, 5339, 4839, 622, 1267, 7617, 2426, 4682, 3749, 8869, 6158, 8281,
     4095, 6826, 8351, 944, 5790, 242, 7715, 5701, 367, 9689, 1438, 3344, 2, 5245, 205, 2792, 9641, 9912, 3985, 6958,
     4470, 1406, 7708, 8532, 320, 3042, 9165, 5307, 9800, 5131, 9163, 3630, 3550, 640, 3521, 4451, 5968, 9496, 3560, 7680,
     4570, 1014, 2718, 3552, 7689, 8437, 5516, 4707, 3246, 5367, 2044, 7118, 4471, 2581, 7789, 2680, 4520, 238, 225, 5579,
     8023, 2530, 522, 7148, 2269, 6898, 9773, 2275, 4087, 5738, 6951, 7775, 6821, 7580, 8692, 1604, 4502, 6717, 5938, 733,
     1196, 1912, 5552, 9458, 796, 8610, 569, 7186, 9836, 9315, 917, 5686, 263, 5220, 3533, 739, 1378, 3880, 9615, 1138,
     5033, 2586, 9781, 8092, 5766, 6345, 1409, 1648, 8763, 4252, 3543, 6803, 9417, 949, 5086, 5688, 6959, 7952, 5279, 894,
     9817, 3776, 2633, 9851, 6822, 4339, 7965, 66, 2919, 2134, 9735, 8730, 21, 9356, 4958, 4419, 7019, 9455, 1630, 6312,
     1368, 4140, 7236, 8509, 993, 1908, 9009, 856, 3304, 1298, 6151, 9980, 3932, 3923, 9531, 2216, 5903, 8137, 3395, 9393,
     765, 6495, 8640, 944, 9182, 2031, 4153, 2181, 2706, 6251, 369, 9568, 1438, 2064, 234, 7727, 7733, 8466, 8047, 1443,
     3686, 7721, 5784, 3593, 4730, 3917, 963, 4573, 1855, 7833, 8051, 4400, 1063, 7323, 4247, 1671, 7764, 6374, 8245, 8603,
     3134, 6768, 1713, 9246, 8788, 3448, 8481, 1202, 2288, 1705, 1047, 8092, 8699, 7118, 2341, 8036, 6854, 8869, 2071, 3713,
     2466, 6562, 602, 7292, 424, 9657, 5446, 2350, 1760, 3764, 1098, 9103, 7068, 9995, 7062, 9256, 9465, 4342, 5193, 6254,
     259, 2068, 191, 6044, 689, 6308, 9882, 5612, 1578, 9039, 4504, 1111, 8837, 3029, 3863, 7947, 4642, 6406, 3462, 5551,
     9672, 3014, 5242, 6219, 3716, 3568, 3043, 2496, 7384, 4896, 67, 2356, 2763, 4238, 7937, 1863, 6084, 8035, 6206, 5958,
     8923, 2268, 8482, 3267, 1425, 1479, 5870, 4608, 8144, 6228, 7756, 8861, 9683, 3490, 6398, 117, 8540, 6246, 3153, 2099,
     368, 3581, 3323, 2207, 404, 4957, 9734, 4772, 985, 9419, 5800, 7583, 4709, 3064, 9100, 3395, 8051, 5891, 1764, 2608,
     8351, 1605, 5655, 5042, 9845, 1006, 3602, 2253, 1280, 5082, 5777, 4355, 5067, 6002, 5199, 9371, 3648, 7012, 3846, 7666,
     1113, 1604, 9467, 894, 5699, 8102, 1518, 8103, 9562, 5154, 5524, 8893, 3779, 4060, 9306, 3078, 2531, 3779, 2001, 5260,
     7947, 9278, 2858, 1083, 3317, 360, 5591, 7049, 2632, 449, 37, 2761, 9853, 3359, 405, 5336, 1020, 5107, 2082, 7528,
     4018, 9808, 6523, 3204, 6284, 9361, 3360, 4672, 448, 9431, 7651, 3350, 7664, 4052, 2579, 8096, 1607, 7447, 4004, 9504,
     972, 6652, 8226, 7754, 2780, 4953, 1489, 7026, 429, 3966, 6205, 2520, 7677, 481, 7267, 4347, 7182, 6797, 241, 7590,
     5560, 3022, 8288, 3724, 1334, 2072, 4097, 6177, 3787, 9786, 5383, 3764, 4420, 7025, 1331, 8070, 5231, 2093, 854, 1895,
     3985, 9544, 340, 7377, 147, 1288, 7234, 687, 2885, 3470, 7915, 165, 9132, 2096, 7698, 1998, 5369, 976, 4772, 6570,
     3315, 5886, 5769, 1150, 8236, 9232, 3707, 8358, 6136, 3988, 6226, 6033, 3367, 3153, 6092, 8492, 7410, 339, 2174, 2393,
     2787, 9714, 299, 9795, 433, 324, 8765, 7213, 159, 7283, 8487, 3879, 8609, 5379, 2391, 220, 8873, 4430, 278, 6028,
     6086, 1801, 2024, 8998, 8308, 1121, 7465, 6034, 8594, 3223, 8241, 1836, 8962, 5730, 2562, 2221, 4776, 9747, 6040, 9172,
     9204, 8827, 9804, 6457, 859, 7344, 850, 1299, 475, 9772, 9739, 9522, 1101, 4229, 1448, 7161, 303, 1232, 5157, 6903,
     9096, 659, 4166, 5159, 201, 2810, 8495, 1204, 2231, 3003, 5803, 2255, 6173, 4486, 1801, 4571, 347, 7464, 2748, 4190,
     7775, 9861, 5783, 6112, 9579, 1941, 3852, 413, 9977, 5408, 2435, 5906, 3641, 7881, 3724, 4812, 3058, 1709, 5584, 372,
     8327, 1578, 6450, 9918, 9248, 478, 9587, 9938, 8080, 3849, 3654, 2766, 5159, 2035, 1249, 9814, 506, 2517, 4308, 6981,
     823, 9346, 6422, 1391, 2135, 3794, 5875, 9607, 8302, 9131, 3956, 4419, 675, 4322, 4972, 3108, 9466, 4657, 1190, 3585,
     6106, 9302, 364, 3360, 3048, 6966, 6493, 8960, 8774, 3594, 6779, 916, 81, 4756, 6965, 3272, 7180, 8725, 4266, 8701,
     1123, 6815, 5691, 9492, 919, 1523, 3212, 3277, 7635, 1856, 6871, 9950, 5134, 9847, 9763, 8643, 3488, 4498, 8369, 2397,
     7492, 111, 2610, 6340, 307, 6578, 5259, 5984, 4841, 7943, 5503, 3714, 7118, 9721, 5987, 8644, 6553, 5358, 7893, 2313,
     8390, 3586, 5311, 8899, 7546, 6883, 5890, 2537, 1163, 4132, 2740, 9302, 4063, 4365, 9325, 7423, 9823, 3537, 925, 3262,
     8954, 6340, 2526, 3258, 7264, 4268, 8464, 3572, 5719, 3104, 9746, 8110, 4088, 5053, 3688, 3861, 3727, 8580, 7465, 3674,
     7841, 5472, 5898, 9489, 8895, 7132, 4835, 379, 9295, 2230, 4856, 6552, 2077, 7301, 4621, 8921, 1216, 1645, 3791, 2299,
     2112, 9648, 7104, 8462, 7614, 245, 7330, 5174, 8334, 7160, 9235, 5769, 2385, 8437, 3302, 9616, 1178, 8840, 1244, 9071,
     8048, 9902, 1476, 6560, 4278, 4908, 438, 4405, 8811, 9884, 3282, 3103, 5882, 2367, 2548, 1981, 4181, 1148, 8462, 1593,
     8902, 4029, 822, 4843, 1734, 7628, 7969, 4440, 10, 6604, 2662, 7625, 259, 8831, 5412, 3418, 342, 2133, 5408, 389,
     6505, 9845, 8362, 9007, 9526, 3428, 8291, 7854, 6192, 3464, 970, 6675, 8264, 2362, 1092, 7024, 6817, 6812, 8936, 9274,
     7992, 5781, 3865, 6777, 6936, 1859, 972, 5311, 8412, 6921, 3197, 1401, 6687, 5800, 8391, 85, 2605, 9334, 7488, 6998,
     9616, 3737, 5552, 325, 474, 8605, 5220, 3325, 7611, 8905, 8190, 8112, 3901, 933, 6948, 5919, 7388, 5094, 8698, 2083,
     1605, 5088, 3998, 8886, 4022, 1300, 422, 3937, 5143, 5482, 4791, 3950, 1864, 6973, 2472, 9558, 8191, 8210, 4378, 2029,
     4941, 8730, 5961, 6984, 221, 2793, 3221, 9330, 3493, 5659, 1989, 1672, 1751, 6090, 1461, 7888, 7717, 7094, 7825, 1763,
     6327, 8608, 6527, 8214, 9746, 6722, 7724, 1279, 2780, 7793, 7723, 2537, 3358, 5255, 2829, 1000, 1795, 7230, 5489, 9135,
     5069, 4203, 473, 2925, 6842, 7092, 1333, 3847, 2165, 8836, 7908, 7320, 5978, 1538, 8830, 3688, 1396, 4749, 8402, 7737,
     7943, 1721, 3053, 3843, 5237, 3435, 5000, 5338, 735, 1246, 112, 6917, 4772, 5339, 5347, 2045, 1425, 1541, 5637, 6689,
     7906, 7137, 1947, 364, 7873, 4139, 6518, 2241, 7892, 4503, 4110, 8052, 5443, 1398, 9112, 4219, 8352, 6775, 5893, 9006,
     5999, 4656, 9316, 8213, 4873, 4577, 2081, 1801, 4279, 109, 4531, 3370, 4065, 8198, 1171, 6273, 498, 4009, 2869, 1932,
     9196, 4712, 3761, 1239, 9888, 6139, 1558, 3485, 7151, 8374, 2345, 9441, 7679, 1053, 4801, 57, 41, 5, 6332, 9964,
     1042, 1896, 3322, 7252, 5012, 5596, 4518, 9871, 8793, 5416, 4358, 5287, 3627, 9169, 5526, 2212, 9224, 7122, 920, 9823,
     455, 3863, 9857, 1671, 6535, 5146, 7747, 4860, 7422, 3682, 4038, 8748, 3457, 7254, 7776, 3987, 5800, 6844, 3921, 317,
     5938, 4177, 9076, 4500, 4484, 7428, 1247, 8043, 7891, 7362, 4328, 3265, 9980, 3985, 9332, 3957, 3463, 1153, 8388, 1759,
     5696, 7567, 9386, 8049, 5134, 4950, 5874, 738, 3313, 3227, 8139, 7757, 185, 9212, 9115, 6412, 7342, 1118, 2626, 5339,
     1857, 1988, 1986, 9279, 3099, 3432, 6852, 7780, 9119, 3891, 9793, 991, 4092, 9755, 9076, 8949, 8705, 21, 6450, 7476,
     3978, 6602, 3510, 1895, 2963, 9087, 6609, 1437, 5023, 7311, 476, 8614, 9414, 9349, 5479, 121, 7843, 2176, 6524, 6744,
     9360, 297, 6697, 2953, 5459, 6604, 9518, 7386, 1481, 7279, 9177, 9770, 5392, 1805, 9073, 5699, 3075, 2587, 9098, 7476,
     5227, 3252, 5157, 5519, 5372, 6061, 1279, 2494, 502, 1244, 2635, 478, 604, 977, 3214, 4783, 4728, 3910, 308, 2138,
     55, 2021, 6008, 20, 65, 5113, 9786, 6285, 6224, 823, 7041, 5074, 1031, 5226, 5570, 443, 3758, 1682, 9190, 1767,
     4301, 5678, 4739, 9398, 9798, 3399, 4901, 7765, 7854, 74, 2075, 3422, 7786, 3603, 7523, 5667, 2356, 5968, 3631, 8732,
     9157, 7317, 3162, 3982, 6473, 8195, 7321, 6523, 11, 5882, 1677, 4790, 3774, 4785, 5081, 2773, 1688, 6776, 5555, 9784,
     4673, 4035, 238, 8783, 7233, 8858, 6351, 5265, 2661, 173, 5125, 3904, 1644, 9189, 6271, 4533, 4288, 5740, 1340, 7504,
     751, 2296, 1268, 9951, 2612, 9982, 4577, 5818, 6740, 149, 223, 6547, 9754, 2910, 2149, 7918, 7741, 8639, 4170, 907,
     3379, 1426, 8663, 7787, 8601, 9370, 2301, 6333, 1338, 1966, 4295, 5628, 4051, 3277, 5276, 3633, 6969, 3954, 4231, 5675,
     9475, 7231, 4163, 6493, 6257, 9961, 5657, 7936, 5012, 2323, 5085, 7803, 493, 7333, 4485, 392, 9849, 6497, 969, 5121,
     7763, 2543, 4840, 9893, 6021, 8671, 4428, 4456, 6011, 8190, 5454, 3993, 6085, 4851, 8938, 1034, 4193, 2406, 4798, 6658,
     4065, 4920, 6315, 6683, 2814, 7665, 6078, 3142, 9335, 8955, 6329, 2187, 6289, 4768, 5215, 84, 7361, 9200, 9886, 8366,
     848, 6933, 7895, 5849, 3487, 6665, 7627, 142, 9523, 8000, 2392, 9804, 7378, 993, 9762, 1336, 946, 7371, 654, 2031,
     3302, 7248, 3138, 2692, 3178, 2638, 2871, 7385, 3767, 6632, 7183, 7964, 442, 9260, 2805, 2205, 6382, 7747, 5494, 2797,
     6966, 5203, 6214, 788, 3308, 4498, 2679, 9548, 4564, 1184, 3069, 2059, 3784, 8899, 2101, 3854, 3179, 8275, 5280, 7926,
     5396, 9393, 9824, 9163, 1586, 7480, 9740, 1458, 4562, 7660, 4244, 7600, 1794, 3733, 7584, 1473, 29, 846, 4605, 7501,
     5242, 1697, 6445, 6070, 8922, 4800, 3268, 7983, 7782, 9468, 5062, 5667, 658, 6284, 1707, 6040, 8693, 852, 3107, 6640,
     3900, 524, 2053, 3323, 8914, 795, 6839, 2973, 9243, 2775, 4052, 2686, 8480, 539, 767, 7135, 6356, 8572, 7396, 4188,
     8542, 3677, 1242, 7586, 2828, 7064, 8588, 22, 2838, 7447, 853, 283, 4824, 2107, 4776, 3651, 1436, 2163, 4082, 2476,
     4128, 3338, 4967, 8205, 28, 8226, 116, 7080, 981, 1463, 2094, 4003, 6462, 2795, 5519, 6117, 5203, 1829, 2768, 5791,
     6907, 765, 6746, 6633, 6419, 7704, 2225, 1977, 9108, 4296, 2440, 4760, 8313, 2605, 8786, 8029, 4985, 2670, 1546, 2948,
     6576, 9025, 740, 1750, 9961, 5832, 7245, 8601, 2057, 1861, 9496, 8745, 1082, 1294, 5990, 2791, 3422, 7195, 3592, 1497,
     5010, 2084, 566, 3357, 2903, 9929, 5766, 9332, 4093, 2869, 7059, 197, 4064, 3849, 8513, 384, 4942, 9737, 6891, 1571,
     8817, 1406, 5088, 3002, 5762, 7085, 2228, 4240, 6050, 7807, 9511, 7892, 485, 1904, 208, 7859, 8708, 193, 8939, 9874,
     293, 5623, 7717, 8586, 8192, 1859, 4472, 9616, 3796, 5693, 4604, 2815, 1992, 9105, 5245, 1773, 7683, 6184, 7315, 6982,
     2312, 8307, 5004, 1263, 6871, 8553, 5109, 3259, 8689, 6565, 9092, 313, 2248, 8733, 1342, 6148, 5813, 8826, 2259, 3960,
     3350, 8077, 1355, 5784, 7236, 7719, 7347, 7147, 5043, 1709, 4788, 4339, 9037, 7692, 3411, 7613, 535, 6335, 6277, 6238,
     9964, 1766, 9353, 4635, 5, 7783, 2967, 7470, 9695, 4340, 1309, 3164, 5057, 7697, 1882, 332, 8395, 8076, 2320, 3453,
     8547, 3090, 5643, 6577, 4507, 4871, 3660, 1054, 4402, 3116, 1931, 6956, 5870, 2188, 1809, 7291, 8077, 5567, 2352, 4261,
     138, 4472, 9648, 3130, 917, 1067, 5127, 3411, 7594, 7636, 635, 563, 7838, 8988, 3378, 2162, 4575, 723, 1150, 4650,
     4323, 5302, 2035, 9899, 9198, 5157, 349, 5238, 1679, 510, 6284, 6210, 1935, 1439, 924, 7798, 984, 3851, 5821, 8225,
     364, 8968, 1600, 3296, 1208, 3419, 4846, 1991, 559, 4564, 5133, 3371, 4648, 7339, 7870, 920, 1845, 2709, 999, 9699,
     6963, 5892, 7446, 3615, 9854, 9872, 81, 5585, 8279, 5479, 6352, 9462, 4373, 4939, 9662, 1778, 9964, 2306, 3781, 9464,
     709, 7253, 7102, 6888, 5347, 7553, 1335, 5256, 4145, 3070, 1356, 2372, 8919, 2739, 9863, 4564, 729, 6369, 4544, 8926,
     2260, 5705, 3847, 5221, 1946, 3463, 1323, 7564, 4804, 1246, 6062, 625, 6308, 4506, 3619, 8767, 2097, 8112, 4233, 8279,
     8615, 5329, 9959, 1756, 5372, 2945, 5921, 3017, 2471, 987, 1750, 684, 9343, 3310, 8659, 3827, 6035, 6077, 9804, 7032,
     5393, 4207, 540, 4974, 9625, 8170, 1589, 8175, 9260, 3702, 3336, 6830, 8974, 8881, 9587, 5137, 3805, 2679, 2107, 2663,
     4369, 9995, 445, 6232, 7999, 111, 8916, 4487, 5310, 1483, 2538, 6341, 1183, 8942, 3045, 123, 7190, 4013, 6231, 5917,
     1956, 5070, 5440, 805, 8192, 335, 5750, 9462, 4480, 288, 3884, 8008, 8649, 6886, 4038, 1734, 2161, 2232, 274, 9253,
     1294, 434, 1764, 658, 706, 562, 8750, 6151, 8221, 6251, 115, 7477, 868, 3417, 7205, 6578, 929, 1100, 5429, 4119,
     8065, 5043, 3548, 8209, 6737, 212, 7248, 5902, 8669, 4241, 73, 2797, 7363, 2234, 384, 4169, 9865, 3299, 3983, 2592,
     4151, 753, 7744, 3112, 9303, 8202, 2527, 2253, 635, 9797, 9606, 8548, 9375, 3338, 3018, 555, 2400, 9298, 166, 3442,
     1154, 7150, 9122, 3218, 2341, 6257, 80, 275, 448, 2005, 5701, 2337, 6363, 5416, 3422, 5392, 8808, 4173, 732, 6108,
     2670, 3233, 3726, 9710, 4719, 3896, 1630, 6864, 8363, 6407, 4323, 6947, 3684, 7693, 3478, 3928, 1544, 956, 7092, 3560,
     264, 9677, 1653, 6635, 1304, 6788, 4350, 7970, 383, 7501, 5296, 1696, 3166, 951, 1265, 109, 809, 3355, 5716, 7666,
     9347, 6261, 4564, 3274, 6834, 6989, 3822, 3388, 3635, 1112, 1570, 666, 9005, 5464, 7070, 4233, 9390, 4255, 832, 2794,
     4803, 8685, 1806, 6342, 4828, 5102, 1893, 5853, 823, 9722, 1351, 8924, 2549, 8611, 8662, 2057, 4976, 7559, 4404, 9210,
     1535, 7558, 6887, 43, 9511, 8645, 1510, 5122, 2136, 4876, 4826, 3915, 657, 1850, 7210, 4687, 1766, 5787, 678, 3602,
     7293, 9496, 2145, 5646, 9217, 6094, 6632, 8758, 6466, 6118, 1101, 781, 9157, 5663, 369, 6631, 9190, 9414, 9640, 951,
     5977, 2341, 5573, 9621, 8064, 7527, 6874, 2956, 9826, 1462, 1192, 1105, 8366, 7212, 7292, 1574, 5535, 5559, 8204, 9105,
     7184, 7777, 5043, 4541, 6938, 3440, 7894, 2978, 4841, 2749, 1046, 676, 5561, 3272, 9485, 1100, 5753, 4336, 1659, 1645,
     647, 9728, 7691, 7976, 6273, 5812, 5224, 1314, 9915, 2772, 5627, 6843, 814, 4840, 3224, 678, 5319, 4321, 1774, 6638,
     8011, 1685, 4211, 4106, 5799, 1834, 56, 6530, 7879, 6119, 8564, 5279, 1721, 8209, 4526, 1973, 2501, 7107, 7242, 6480,
     56, 5470, 5484, 4518, 7257, 9363, 2274, 2739, 5981, 8492, 3802, 4251, 6602, 2804, 3106, 2147, 2996, 8896, 7213, 3301,
     2804, 6537, 8825, 9371, 7818, 9675, 4903, 9886, 8155, 8347, 5595, 9051, 9673, 7578, 4644, 3035, 9891, 2028, 6553, 2536,
     7682, 8162, 4562, 6583, 1513, 8805, 2114, 5803, 9345, 8117, 2844, 4854, 5227, 902, 1745, 8384, 7633, 7141, 9281, 9318,
     6888, 3739, 2761, 8433, 635, 4200, 8997, 30, 4680, 8975, 9955, 6650, 4794, 7701, 1531, 1578, 1884, 7868, 6625, 6725,
     9378, 3753, 6613, 2262, 1506, 6978, 1623, 1066, 9573, 4090, 1831, 6056, 7232, 5782, 8858, 3939, 4145, 3570, 9488, 3655,
     2514, 5305, 4129, 8812, 3004, 9468, 9461, 5536, 8638, 7660, 2843, 8862, 8313, 9031, 9052, 4611, 6265, 270, 7723, 3584,
     4082, 7053, 5008, 6825, 196, 2926, 4195, 1056, 4384, 4089, 8596, 9575, 3684, 1081, 4922, 5830, 1227, 2138, 9766, 9623,
     2880, 7022, 7456, 9996, 744, 6824, 7641, 1088, 1851, 6172, 6902, 4076, 6648, 7271, 912, 6106, 8424, 9287, 1889, 3994,
     3114, 6424, 4023, 4540, 5843, 5204, 292, 3804, 2353, 9083, 8792, 8834, 6731, 31, 5642, 1751, 3297, 9545, 1684, 5682,
     1633, 6958, 5022, 1540, 1585, 1792, 6071, 7332, 1819, 1230, 9816, 6614, 3934, 3931, 4662, 3520, 4509, 3399, 3754, 1991,
     4712, 9190, 8166, 5031, 5892, 6525, 271, 3912, 6749, 2404, 2984, 8128, 5845, 1756, 9902, 5522, 8969, 5333, 2912, 7227,
     7863, 9256, 2423, 6164, 8746, 5, 4074, 9332, 425, 8413, 5746, 5574, 5231, 8061, 662, 5861, 9756, 2813, 2319, 3340,
     2073, 6414, 1916, 6737, 6868, 8184, 7592, 7961, 5148, 927, 6301, 1163, 6390, 8744, 3595, 256, 657, 470, 7026, 1054,
     1526, 524, 548, 5627, 6837, 9998, 7451, 7832, 2850, 1035, 6371, 2650, 9571, 7423, 6889, 4626, 469, 6860, 198, 9305,
     9811, 2879, 9438, 3008, 9204, 6694, 5944, 558, 4576, 5715, 9887, 3036, 1435, 9976, 1933, 5758, 4362, 4326, 2638, 642,
     6766, 4747, 9669, 5377, 4839, 6128, 8682, 6570, 9672, 1565, 7089, 1240, 4225, 9792, 1361, 1150, 9207, 9360, 9901, 4382,
     7017, 7177, 8451, 7428, 4592, 4179, 5583, 2001, 5775, 4625, 6381, 3654, 7509, 1230, 4777, 513, 5305, 4011, 6982, 7153,
     267, 9261, 629, 9733, 4140, 4103, 7342, 8444, 9347, 2668, 7437, 9668, 5826, 3757, 1667, 6941, 3138, 6014, 8492, 4497,
     9522, 4767, 5176, 4725, 4355, 8567, 5461, 717, 4586, 6753, 311, 9799, 1666, 598, 3771, 6220, 5336, 4174, 1996, 660,
     7312, 3363, 1252, 4808, 3715, 3670, 8091, 7972, 2735, 8048, 9560, 221, 5497, 660, 6926, 4524, 4757, 6387, 1522, 5490,
     9850, 9429, 7209, 2365, 718, 4186, 3101, 5531, 1962, 590, 1275, 9662, 276, 632, 3170, 5886, 6770, 5014, 8652, 8439,
     7714, 3995, 1289, 3752, 8010, 8355, 4537, 8178, 4323, 7683, 5548, 5795, 2497, 6089, 5842, 681, 3742, 621, 7253, 735,
     5928, 9275, 6998, 7436, 4613, 9758, 6957, 4434, 3005, 8164, 4055, 6665, 9311, 2814, 5951, 4758, 2140, 5837, 3706, 9750,
     988, 8278, 1563, 487, 4295, 143, 2409, 74, 7954, 9302, 6624, 6716, 1714, 1439, 3526, 3632, 3366, 7730, 5714, 9809,
     4540, 3061, 8512, 7892, 8802, 2251, 8448, 3332, 7670, 6712, 7183, 395, 6600, 7247, 8411, 7982, 5873, 4811, 9557, 6506,
     650, 2378, 1458, 881, 4232, 803, 3038, 2528, 4724, 2066, 5117, 9918, 7698, 6510, 7290, 9874, 5519, 5088, 2555, 1906,
     5267, 2468, 8705, 7598, 8354, 8486, 787, 5580, 2845, 5153, 6232, 3727, 9255, 9994, 7331, 9943, 1732, 1985, 6535, 9327,
     1118, 6161, 2169, 5409, 6274, 257, 5961, 8774, 6420, 3007, 3610, 4719, 8635, 9216, 9183, 3586, 7796, 279, 6302, 7103,
     5377, 8789, 3170, 1036, 8120, 9796, 4351, 4053, 5653, 7399, 4152, 3376, 7527, 7832, 717, 9170, 9593, 9300, 6847, 2785,
     8636, 2927, 8784, 538, 4510, 6449, 3874, 1976, 9473, 9464, 6741, 2929, 7485, 5318, 3807, 7207, 5660, 1044, 4387, 1385,
     8804, 898, 3419, 7852, 934, 2709, 5905, 1431, 1832, 9206, 2193, 9188, 6912, 300, 8672, 852, 2319, 144, 2278, 206,
     8900, 4315, 5177, 8634, 7560, 625, 5509, 1442, 5513, 5269, 4770, 6719, 704, 9982, 3323, 2849, 7366, 8165, 4157, 127,
     5418, 7006, 517, 3634, 1276, 8650, 8392, 1570, 1842, 7027, 1299, 3497, 6302, 182, 1776, 3025, 2609, 7682, 4403, 7572,
     6696, 1958, 1296, 7382, 7384, 4720, 1765, 7213, 8756, 5630, 7051, 1857, 3587, 2219, 4962, 152, 419, 1782, 5226, 8043,
     6012, 1988, 5183, 3609, 7525, 6557, 7370, 658, 5765, 3807, 961, 7703, 7765, 1928, 9892, 7629, 1419, 2209, 2652, 5598,
     3229, 35, 1389, 3095, 137, 3151, 8162, 1240, 5242, 184, 6060, 8253, 2487, 8496, 3747, 1591, 8191, 6906, 4566, 2796,
     9062, 4825, 1962, 8022, 3385, 7230, 7404, 7770, 1589, 9155, 4754, 2790, 2826, 6635, 861, 5698, 8369, 7608, 2227, 4220,
     7062, 4764, 4380, 6951, 9259, 7844, 9666, 6976, 2125, 3609, 3269, 2321, 2662, 372, 7506, 1493, 9026, 9778, 5923, 444,
     8782, 8942, 3708, 5172, 7072, 9064, 3042, 2305, 9452, 4340, 1337, 2718, 7209, 4260, 2484, 370, 3010, 7390, 7814, 5002,
     3333, 4274, 8848, 3651, 3101, 7324, 6524, 7135, 1194, 1589, 9259, 8761, 2143, 3230, 7022, 1164, 9825, 4937, 5553, 6682,
     8651, 28, 3897, 8207, 4812, 7949, 2523, 7807, 4883, 4441, 7968, 413, 4194, 3774, 7495, 8553, 3981, 1335, 386, 3748,
     6869, 6318, 1538, 5059, 2342, 2138, 302, 6300, 9397, 9362, 8652, 6214, 9530, 1745, 185, 7993, 9682, 1918, 9829, 8305,
     6900, 3527, 9650, 3577, 1652, 9802, 7982, 4660, 5737, 3552, 1155, 1229, 2921, 888, 6243, 1874, 7600, 5993, 6386, 5363,
     1491, 9845, 8293, 3279, 4954, 3659, 1738, 5316, 5089, 1424, 7136, 2535, 5799, 347, 343, 4259, 4771, 8783, 2448, 4207,
     4234, 9591, 2106, 4277, 4049, 5783, 9247, 1943, 8325, 9654, 8479, 9577, 1006, 5388, 9759, 5970, 1606, 8329, 7361, 6221,
     9668, 1463, 8516, 3227, 9321, 9258, 6051, 9328, 7813, 9642, 8115, 5216, 1275, 2364, 9901, 2718, 2149, 9747, 1177, 1354,
     7421, 3167, 6046, 6935, 5297, 6172, 4277, 9612, 1422, 1337, 3795, 1556, 8976, 139, 5683, 2720, 70, 3098, 8497, 2565,
     1354, 6676, 814, 2991, 407, 655, 4385, 2215, 7044, 9044, 3512, 2264, 5994, 4487, 359, 4206, 609, 5199, 9146, 7204,
     8279, 7025, 745, 7589, 7992, 5356, 965, 5703, 2373, 1599, 6768, 4837, 9161, 9815, 2749, 2199, 3916, 1812, 9880, 3844,
     2378, 6331, 7542, 1549, 2571, 5834, 6092, 1729, 9836, 4046, 4489, 2388, 4229, 8676, 539, 2468, 42, 8407, 8153, 1732,
     2811, 179, 5424, 6337, 4012, 1643, 8643, 3067, 6996, 5805, 7181, 32, 4966, 5815, 16, 478, 7399, 835, 5562, 3666,
     3469, 5227, 1347, 2695, 7376, 4746, 7078, 3463, 5658, 5693, 2677, 1982, 7983, 2118, 9321, 3794, 438, 7632, 7005, 323,
     503, 1604, 1172, 7238, 7607, 7563, 9287, 458, 9161, 3061, 4472, 7898, 4951, 4961, 4661, 9438, 2587, 8776, 4461, 7056,
     6259, 4007, 1692, 5758, 7962, 938, 355, 9010, 4513, 8007, 7294, 8849, 1010, 6141, 51, 3307, 4887, 5356, 9368, 6475,
     5228, 5391, 2792, 6222, 7917, 4270, 9083, 173, 4732, 7617, 1289, 9897, 3530, 736, 7843, 2203, 2378, 3266, 3362, 3432,
     4751, 446, 549, 5089, 5853, 8936, 598, 8286, 7733, 9496, 7162, 2518, 3234, 5787, 8391, 8249, 9012, 7050, 7692, 5263,
     595, 4253, 5112, 461, 8148, 1437, 7791, 565, 2825, 6591, 1544, 9983, 3929, 617, 1983, 4976, 6914, 4124, 8372, 6112,
     9801, 1156, 3231, 1521, 978, 799, 8734, 5091, 6285, 5219, 1742, 1073, 3127, 1455, 2021, 2938, 2985, 7769, 579, 2209,
     45, 8287, 5073, 7419, 5165, 9303, 7032, 5772, 8744, 5259, 1904, 3758, 5764, 8740, 8207, 6117, 4953, 6849, 1925, 6012,
     9098, 2679, 5684, 9766, 7748, 9062, 4205, 3207, 793, 9820, 9473, 7574, 7650, 2448, 4587, 3946, 4496, 7366, 5175, 9982,
     3212, 3639, 4077, 1277, 4482, 9706, 1667, 9346, 8665, 1007, 5600, 2420, 6554, 6345, 5041, 6213, 7269, 884, 8716, 8025,
     7563, 6603, 1669, 3310, 9861, 5852, 9408, 3313, 6748, 7406, 6212, 7989, 3726, 7503, 3230, 3044, 30, 205, 8599, 6746,
     2200, 7777, 6857, 3353, 3359, 3097, 9112, 6001, 2687, 1154, 6940, 625, 1171, 9867, 1282, 405, 1112, 4193, 7124, 8349,
     7872, 3178, 2707, 5157, 1531, 182, 1770, 7170, 8969, 3094, 9184, 6912, 7335, 6608, 9170, 5359, 9313, 3852, 474, 2004,
     3501, 8068, 3247, 9322, 6606, 3238, 7294, 2747, 2872, 5847, 5922, 6931, 5019, 2466, 359, 841, 2772, 6393, 4542, 9720,
     1947, 8300, 8082, 592, 8104, 5768, 9809, 6967, 6637, 7894, 2782, 7881, 6181, 3854, 4657, 731, 44, 7076, 2987, 4809,
     7092, 8880, 1679, 4953, 8128, 5610, 8005, 1531, 8090, 4294, 6700, 7850, 1196, 1604, 4750, 4618, 1827, 3471, 1387, 9587,
     3562, 1096, 5836, 344, 8583, 8171, 7858, 3375, 8489, 8793, 9645, 2907, 2667, 57, 5259, 5726, 1248, 7581, 5481, 4948,
     5414, 9216, 7562, 5824, 6612, 2610, 7324, 2385, 3965, 2395, 2346, 3241, 7032, 1492, 5283, 8340, 7778, 90, 5852, 9615,
     3455, 3986, 9484, 6462, 3650, 4492, 5614, 2250, 537, 3313, 6397, 7133, 9552, 2379, 1827, 2436, 9421, 6995, 9757, 977,
     3912, 3721, 1318, 9749, 3984, 3424, 2783, 7887, 7425, 5077, 7893, 4790, 1057, 7982, 5749, 4329, 3823, 5374, 3241, 3890,
     2063, 1036, 9490, 2475, 237, 3820, 4109, 1072, 3150, 7100, 4322, 5399, 7323, 3240, 3663, 2312, 1812, 6645, 5965, 5009,
     6704, 9043, 6827, 3900, 3904, 1722, 1835, 5330, 6299, 92, 8530, 478, 9087, 6323, 3874, 2652, 9441, 1924, 7696, 4682,
     8857, 6480, 763, 4160, 3499, 4181, 5937, 3752, 2500, 2772, 4719, 3031, 2189, 9442, 2399, 9745, 8450, 7468, 9624, 9362,
     5786, 1698, 1658, 88, 4333, 6540, 7023, 4750, 949, 1029, 6712, 1897, 2902, 9602, 4672, 3071, 1163, 6401, 5762, 6453,
     9141, 3769, 7673, 4197, 2537, 5350, 8027, 8808, 1534, 9274, 5471, 4000, 563, 632, 767, 1958, 901, 2045, 278, 5227
  >>

TableLen == Len(RngTable)

rng(k) == RngTable[k + 1]

-----------------------------------------------------------------------------
(* Numbers *)

\* Math.round(n / d) for n >= 0, d > 0: the nearest integer, a half going up.
MathRound(n, d) == (2 * n + d) \div (2 * d)

\* The double Infinity, which is no integer: kept apart from the row counts.
Infinity == -1
\* In place of the cells when the generator's loop does not end.
NeverReturns == <<[id |-> Infinity]>>

NaN == [nan |-> TRUE, num |-> 0, den |-> 1]
Num(n, d) == [nan |-> FALSE, num |-> n, den |-> d]

RECURSIVE Gcd(_, _)
Gcd(a, b) == IF b = 0 THEN a ELSE Gcd(b, a % b)

-----------------------------------------------------------------------------
(* Geometry: cols = gridSize[0]; aspectRatio = width / height;              *)
(* rows = Math.round(cols / aspectRatio) || 1                               *)

\* RowsOf with a half rounded down.
RowsOfHalfDown(c, dim) ==
  LET r == (2 * c * dim.height + dim.width - 1) \div (2 * dim.width)
  IN  IF r = 0 THEN 1 ELSE r

\* cols / aspectRatio = cols * height / width; a result of 0 is falsy, so || 1.
\* With height 0 the ratio is Infinity (or NaN for 0 / 0) and cols / ratio is 0
\* (or NaN), both falsy: 1.  With width 0 and a height the ratio is 0 and
\* cols / 0 is Infinity, which Math.round returns and || lets through.
RowsOf(c, dim) ==
  IF dim.height = 0
    THEN 1
    ELSE IF dim.width = 0
           THEN Infinity
           ELSE LET r == MathRound(c * dim.height, dim.width)
                IN  IF r = 0 THEN 1 ELSE r

\* width / height as a fraction in lowest terms: equal exactly when the doubles are.
AspectOf(dim) ==
  LET g == Gcd(dim.width, dim.height)
  IN  IF g = 0 THEN <<0, 0>> ELSE <<dim.width \div g, dim.height \div g>>

cols == gridSize
rows == RowsOf(gridSize, dimensions)
aspectRatio == AspectOf(dimensions)

-----------------------------------------------------------------------------
(* The field generator: the body of the useMemo callback *)

\* Quantize with the range cut into `steps` intervals where the code cuts it
\* into steps - 1.
QuantizeIntoStepsIntervals(randomVal, range, steps) ==
  LET span == range[2] - range[1]
      n == randomVal * span * steps
      d == RngScale * span
  IN  IF d = 0
        THEN NaN
        ELSE LET stepIndex == MathRound(n, d)
             IN  Num(range[1] * steps + stepIndex * span, OpacityUnit * steps)

\* opacity = opacityRange[0] + randomVal * (opacityRange[1] - opacityRange[0]),
\* then, if opacitySteps > 1, snapped to a step.  With opacityRange[1] =
\* opacityRange[0] the step size is 0 and (opacity - min) / stepSize is 0 / 0.
Quantize(randomVal, range, steps) ==
  LET span == range[2] - range[1]
      \* stepSize = span / (steps - 1); (opacity - min) / stepSize
      n == randomVal * span * (steps - 1)
      d == RngScale * span
  IN  IF d = 0
        THEN NaN
        ELSE LET stepIndex == MathRound(n, d)
             IN  Num(range[1] * (steps - 1) + stepIndex * span, OpacityUnit * (steps - 1))

CellOpacity(randomVal, range, steps) ==
  IF steps > 1
    THEN Quantize(randomVal, range, steps)
    ELSE Num(range[1] * RngScale + randomVal * (range[2] - range[1]), OpacityUnit * RngScale)

\* duration = r2 * (durationRange[1] - durationRange[0]) + durationRange[0]
CellDuration(r2, range) ==
  Num(r2 * (range[2] - range[1]) + range[1] * RngScale, DurationUnit * RngScale)

\* delay = r3 * 2
CellDelay(r3) == Num(r3 * DelayMax, RngScale)

\* DrawInput with seed and index mixed as seed * 31 + index.
DrawInputSeedScaled(i, draw, sd) ==
  sd * 31 + (CASE draw = "opacity" -> i
               [] draw = "duration" -> i + DurationOffset
               [] draw = "delay" -> i + DelayOffset)

\* The argument of Math.sin for a draw of cell i: seed + index, the index
\* being i for the opacity, i + 10000 for the duration, i + 20000 for the delay.
DrawInput(i, draw, sd) ==
  sd + (CASE draw = "opacity" -> i
          [] draw = "duration" -> i + DurationOffset
          [] draw = "delay" -> i + DelayOffset)

GenerateCell(i, opRange, steps, durRange, sd) ==
  [id       |-> i,
   opacity  |-> CellOpacity(rng(DrawInput(i, "opacity", sd)), opRange, steps),
   duration |-> CellDuration(rng(DrawInput(i, "duration", sd)), durRange),
   delay    |-> CellDelay(rng(DrawInput(i, "delay", sd)))]

\* for (let i = 0; i < rows * cols; i++) cells.push(...): cell i is element i + 1.
\* With rows Infinity the bound rows * cols is Infinity and the loop has no
\* end: the callback does not return.
Generate(r, c, opRange, steps, durRange, sd) ==
  IF r = Infinity
    THEN NeverReturns
    ELSE [k \in 1..(r * c) |-> GenerateCell(k - 1, opRange, steps, durRange, sd)]

\* DepsOf with opacitySteps left out of the list.
DepsOfWithoutSteps(c, dim, opRange, steps, durRange, sd) ==
  <<RowsOf(c, dim), c, opRange, sd, AspectOf(dim), durRange>>

\* The dependency list [rows, cols, opacityRange, seed, aspectRatio, opacitySteps, durationRange].
DepsOf(c, dim, opRange, steps, durRange, sd) ==
  <<RowsOf(c, dim), c, opRange, sd, AspectOf(dim), steps, durRange>>

\* Render without the memo: the callback runs in every render.
RenderWithoutMemo ==
  /\ gridCells' = Generate(RowsOf(gridSize', dimensions'), gridSize', opacityRange',
                           opacitySteps', durationRange', seed')
  /\ cellsRef' = 1 - cellsRef

\* One render: useMemo returns the array it holds unless a dependency changed,
\* and then runs the callback, which builds a new array.  An array is only ever
\* compared with the one held before it, so two references tell them apart.
\* A render whose callback did not return is followed by no other.
Render ==
  /\ gridCells # NeverReturns
  /\ IF DepsOf(gridSize', dimensions', opacityRange', opacitySteps', durationRange', seed')
          = DepsOf(gridSize, dimensions, opacityRange, opacitySteps, durationRange, seed)
       THEN /\ gridCells' = gridCells
            /\ cellsRef' = cellsRef
       ELSE /\ gridCells' = Generate(RowsOf(gridSize', dimensions'), gridSize', opacityRange',
                                     opacitySteps', durationRange', seed')
            /\ cellsRef' = 1 - cellsRef

-----------------------------------------------------------------------------
(* Inputs the model draws *)

\* The values the density slider (min 5, max 100) is moved to.
ColsSet == {MinCols, InitCols}
\* [min, max] pairs of the opacity slider (0..1 in steps of 0.05), in 1/20.
OpacityRanges == {<<4, 18>>, <<10, 10>>}
\* Level counts of the levels slider (0..10).
StepsSet == {0, InitSteps}
\* [min, max] pairs of the duration slider (0.1..10 in steps of 0.1), in 1/10.
DurationRanges == {<<31, 100>>, <<20, 20>>}
\* img.width, img.height of /default-image.png.
DefaultDims == [width |-> 1100, height |-> 100]
\* img.width, img.height of the n-th file the user selects.  The files with
\* a number below 0 are images without a width, a height or both (a vector
\* image that declares none, as some browsers report it).
FileDims(n) ==
  CASE n = -1 -> [width |-> 0, height |-> 600]
    [] n = -2 -> [width |-> 600, height |-> 0]
    [] n = -3 -> [width |-> 0, height |-> 0]
    [] n >= 0 /\ n % 2 = 1 -> [width |-> 1200, height |-> 600]
    [] OTHER -> [width |-> 800, height |-> 600]
\* The cells the user clicks in a grid of n cells: the first and the last.
ClickCells(n) == {0, n - 1}

NoImage == [src |-> "null", n |-> 0]
DefaultImage == [src |-> "/default-image.png", n |-> 0]
\* URL.createObjectURL(file): a fresh URL per call.
ObjectURL(n) == [src |-> "blob", n |-> n]

NoOut == [kind |-> "none"]

\* The useState initialisers of the style settings.  Sizes are counted in
\* their slider's step: dotsSize and strokeWidth in 1/2, the multiplier in 1/10.
InitStyle ==
  [showDots |-> TRUE, gridColor |-> "#faf9f7", dotsColor |-> "#c9c9c9", dotsSize |-> 2,
   showStroke |-> FALSE, strokeColor |-> "#000000", strokeWidth |-> 2,
   strokeOpacityMultiplier |-> 15, blendMode |-> "multiply"]

-----------------------------------------------------------------------------
(* Initial state: the useState initialisers, the first render, and the      *)
(* mount effect, which starts loading /default-image.png.                   *)

Init ==
  /\ image = NoImage
  /\ dimensions = [width |-> 800, height |-> 600]
  /\ gridSize = InitCols
  /\ opacityRange = <<4, 18>>
  /\ opacitySteps = InitSteps
  /\ durationRange = <<31, 100>>
  /\ maskedIndices = {}
  /\ isMaskingMode = FALSE
  /\ isAnimated = FALSE
  /\ seed = 0
  /\ gridCells = Generate(RowsOf(InitCols, [width |-> 800, height |-> 600]), InitCols,
                          <<4, 18>>, InitSteps, <<31, 100>>, 0)
  /\ cellsRef = 0
  /\ style = InitStyle
  /\ loads = {DefaultImage}
  /\ uploads = 0
  /\ pkg = EmptyBag
  /\ out = NoOut

-----------------------------------------------------------------------------
(* Image loading *)

\* The mount effect's img.onload.
DefaultImageLoaded ==
  /\ DefaultImage \in loads
  /\ dimensions' = DefaultDims
  /\ image' = DefaultImage
  /\ loads' = loads \ {DefaultImage}
  /\ out' = NoOut
  /\ UNCHANGED <<gridSize, opacityRange, opacitySteps, durationRange, maskedIndices,
                 isMaskingMode, isAnimated, seed, uploads, pkg, style>>
  /\ Render

\* handleImageUpload: with a file, start loading it and clear the mask.
handleImageUpload(file) ==
  /\ uploads < MaxUploads
  /\ IF file
       THEN /\ uploads' = uploads + 1
            /\ loads' = loads \cup {ObjectURL(uploads + 1)}
            /\ maskedIndices' = {}
       ELSE UNCHANGED <<uploads, loads, maskedIndices>>
  /\ out' = NoOut
  /\ UNCHANGED <<image, dimensions, gridSize, opacityRange, opacitySteps, durationRange,
                 isMaskingMode, isAnimated, seed, pkg, style>>
  /\ Render

\* UploadLoaded with the pattern started over for the new image: setSeed(0).
UploadLoadedResettingSeed(url) ==
  /\ url \in loads
  /\ url.src = "blob"
  /\ dimensions' = FileDims(url.n)
  /\ image' = url
  /\ loads' = loads \ {url}
  /\ seed' = 0
  /\ out' = NoOut
  /\ UNCHANGED <<gridSize, opacityRange, opacitySteps, durationRange, maskedIndices,
                 isMaskingMode, isAnimated, uploads, pkg, style>>
  /\ Render

\* handleImageUpload's img.onload.
UploadLoaded(url) ==
  /\ url \in loads
  /\ url.src = "blob"
  /\ dimensions' = FileDims(url.n)
  /\ image' = url
  /\ loads' = loads \ {url}
  /\ out' = NoOut
  /\ UNCHANGED <<gridSize, opacityRange, opacitySteps, durationRange, maskedIndices,
                 isMaskingMode, isAnimated, seed, uploads, pkg, style>>
  /\ Render

-----------------------------------------------------------------------------
(* Mask *)

\* toggleMask that only ever adds the index.
toggleMaskAddOnly(prev, index) == prev \cup {index}

toggleMask(prev, index) ==
  IF index \in prev THEN prev \ {index} ELSE prev \cup {index}

\* CellClick with the click handler calling toggleMask in either mode.
CellClickInEitherMode(i) ==
  /\ image # NoImage
  /\ i \in 0..(Len(gridCells) - 1)
  /\ i \in maskedIndices \/ Cardinality(maskedIndices) < MaxMask
  /\ maskedIndices' = toggleMask(maskedIndices, i)
  /\ out' = NoOut
  /\ UNCHANGED <<image, dimensions, gridSize, opacityRange, opacitySteps, durationRange,
                 isMaskingMode, isAnimated, seed, loads, uploads, pkg, style>>
  /\ Render

\* onClick={() => isMaskingMode && toggleMask(i)} of a rendered cell; the grid
\* is rendered only while an image is shown.
CellClick(i) ==
  /\ image # NoImage
  /\ i \in 0..(Len(gridCells) - 1)
  /\ i \in maskedIndices \/ Cardinality(maskedIndices) < MaxMask
  /\ maskedIndices' = IF isMaskingMode THEN toggleMask(maskedIndices, i) ELSE maskedIndices
  /\ out' = NoOut
  /\ UNCHANGED <<image, dimensions, gridSize, opacityRange, opacitySteps, durationRange,
                 isMaskingMode, isAnimated, seed, loads, uploads, pkg, style>>
  /\ Render

\* The Clear button, shown in the Mask section while it is switched on and
\* the mask is not empty.
ClearMask ==
  /\ isMaskingMode
  /\ Cardinality(maskedIndices) > 0
  /\ maskedIndices' = {}
  /\ out' = NoOut
  /\ UNCHANGED <<image, dimensions, gridSize, opacityRange, opacitySteps, durationRange,
                 isMaskingMode, isAnimated, seed, loads, uploads, pkg, style>>
  /\ Render

SetIsMaskingMode ==
  /\ isMaskingMode' = ~isMaskingMode
  /\ out' = NoOut
  /\ UNCHANGED <<image, dimensions, gridSize, opacityRange, opacitySteps, durationRange,
                 maskedIndices, isAnimated, seed, loads, uploads, pkg, style>>
  /\ Render

-----------------------------------------------------------------------------
(* Configuration *)

SetGridSize(c) ==
  /\ c # gridSize
  /\ gridSize' = c
  /\ out' = NoOut
  /\ UNCHANGED <<image, dimensions, opacityRange, opacitySteps, durationRange,
                 maskedIndices, isMaskingMode, isAnimated, seed, loads, uploads, pkg, style>>
  /\ Render

SetOpacityRange(r) ==
  /\ r # opacityRange
  /\ opacityRange' = r
  /\ out' = NoOut
  /\ UNCHANGED <<image, dimensions, gridSize, opacitySteps, durationRange,
                 maskedIndices, isMaskingMode, isAnimated, seed, loads, uploads, pkg, style>>
  /\ Render

SetOpacitySteps(n) ==
  /\ n # opacitySteps
  /\ opacitySteps' = n
  /\ out' = NoOut
  /\ UNCHANGED <<image, dimensions, gridSize, opacityRange, durationRange,
                 maskedIndices, isMaskingMode, isAnimated, seed, loads, uploads, pkg, style>>
  /\ Render

SetIsAnimated ==
  /\ isAnimated' = ~isAnimated
  /\ out' = NoOut
  /\ UNCHANGED <<image, dimensions, gridSize, opacityRange, opacitySteps, durationRange,
                 maskedIndices, isMaskingMode, seed, loads, uploads, pkg, style>>
  /\ Render

\* The duration slider, shown in the Animation section while it is switched on.
SetDurationRange(r) ==
  /\ isAnimated
  /\ r # durationRange
  /\ durationRange' = r
  /\ out' = NoOut
  /\ UNCHANGED <<image, dimensions, gridSize, opacityRange, opacitySteps,
                 maskedIndices, isMaskingMode, isAnimated, seed, loads, uploads, pkg, style>>
  /\ Render

\* Regenerate with the mask cleared along with the new seed.
RegenerateClearingMask ==
  /\ isAnimated
  /\ seed < MaxSeed
  /\ seed' = seed + 1
  /\ maskedIndices' = {}
  /\ out' = NoOut
  /\ UNCHANGED <<image, dimensions, gridSize, opacityRange, opacitySteps, durationRange,
                 isMaskingMode, isAnimated, loads, uploads, pkg, style>>
  /\ Render

\* The Regenerate button: setSeed(s => s + 1).
Regenerate ==
  /\ isAnimated
  /\ seed < MaxSeed
  /\ seed' = seed + 1
  /\ out' = NoOut
  /\ UNCHANGED <<image, dimensions, gridSize, opacityRange, opacitySteps, durationRange,
                 maskedIndices, isMaskingMode, isAnimated, loads, uploads, pkg, style>>
  /\ Render

-----------------------------------------------------------------------------
(* Style: the colour inputs, the size sliders and the switches of the Image, *)
(* Grid, Dots and Stroke sections.  A section with a switch shows its        *)
(* controls only while the switch is on.                                     *)

\* The settings that are not at their initial value.
Restyled(st) == {f \in DOMAIN st : st[f] # InitStyle[f]}

\* A style setter called with value v for the setting f: one state update and
\* one render.
SetStyle(f, v) ==
  /\ v # style[f]
  /\ style' = [style EXCEPT ![f] = v]
  /\ Cardinality(Restyled(style')) <= MaxRestyled
  /\ out' = NoOut
  /\ UNCHANGED <<image, dimensions, gridSize, opacityRange, opacitySteps, durationRange,
                 maskedIndices, isMaskingMode, isAnimated, seed, loads, uploads, pkg>>
  /\ Render

\* The values the colour inputs and the size sliders are moved to.
GridColors == {"#faf9f7", "#336699"}
DotsColors == {"#c9c9c9", "#336699"}
StrokeColors == {"#000000", "#336699"}
\* dotsSize and strokeWidth: min 0.5, max 5, step 0.5, in 1/2.
Sizes == {2, 6}
\* strokeOpacityMultiplier: min 0.5, max 3, step 0.1, in 1/10.
Multipliers == {15, 30}

SetShowDots == SetStyle("showDots", ~style.showDots)
SetGridColor(c) == SetStyle("gridColor", c)
SetDotsColor(c) == style.showDots /\ SetStyle("dotsColor", c)
SetDotsSize(n) == style.showDots /\ SetStyle("dotsSize", n)
SetShowStroke == SetStyle("showStroke", ~style.showStroke)
SetStrokeColor(c) == style.showStroke /\ SetStyle("strokeColor", c)
SetStrokeWidth(n) == style.showStroke /\ SetStyle("strokeWidth", n)
SetStrokeOpacityMultiplier(m) == style.showStroke /\ SetStyle("strokeOpacityMultiplier", m)
\* onCheckedChange={(c) => setBlendMode(c ? 'multiply' : 'normal')}
SetBlendMode == SetStyle("blendMode", IF style.blendMode = "multiply" THEN "normal" ELSE "multiply")

-----------------------------------------------------------------------------
(* Exports *)

\* SvgRects with the index read column by column: r = i % rows,
\* c = Math.floor(i / rows).
SvgRectsColumnMajor ==
  [i \in {j \in 0..(Len(gridCells) - 1) : j \notin maskedIndices} |->
     LET r == i % rows
         c == i \div rows
     IN  [row |-> r, col |-> c, opacity |-> gridCells[i + 1].opacity,
          x |-> Num(c * 100, cols), y |-> Num(r * 100, rows),
          width |-> Num(100, cols), height |-> Num(100, rows)]]

\* gridCells.map((cell, i) => maskedIndices.has(i) ? '' : `<rect .../>`): the
\* rectangles emitted, by cell index (a masked cell yields the empty string).
\* cellWidth = 100 / cols, cellHeight = 100 / rows; r = Math.floor(i / cols),
\* c = i % cols; x = c * cellWidth, y = r * cellHeight, in percent.
SvgRects ==
  [i \in {j \in 0..(Len(gridCells) - 1) : j \notin maskedIndices} |->
     LET r == i \div cols
         c == i % cols
     IN  [row |-> r, col |-> c, opacity |-> gridCells[i + 1].opacity,
          x |-> Num(c * 100, cols), y |-> Num(r * 100, rows),
          width |-> Num(100, cols), height |-> Num(100, rows)]]

\* SvgDots with the loops stopping before the last row and column of vertices.
SvgDotsInsideOnly ==
  IF style.showDots
    THEN [k \in 1..(rows * cols) |-> [r |-> (k - 1) \div cols, c |-> (k - 1) % cols]]
    ELSE <<>>

\* if (showDots) for (r = 0; r <= rows; r++) for (c = 0; c <= cols; c++)
\* dots.push(<circle cx = c * cellWidth % cy = r * cellHeight % />): the circles
\* in the order pushed, by the vertex each is put on.
SvgDots ==
  IF style.showDots
    THEN [k \in 1..((rows + 1) * (cols + 1)) |->
            [r |-> (k - 1) \div (cols + 1), c |-> (k - 1) % (cols + 1)]]
    ELSE <<>>

\* handleExportSVG with the mask dropped after the export.
handleExportSVGClearingMask ==
  /\ image # NoImage
  /\ out' = [kind |-> "svg", file |-> "grid-overlay.svg", rects |-> SvgRects,
             dots |-> SvgDots, viewBox |-> dimensions]
  /\ maskedIndices' = {}
  /\ UNCHANGED <<image, dimensions, gridSize, opacityRange, opacitySteps, durationRange,
                 isMaskingMode, isAnimated, seed, gridCells, cellsRef, style, loads,
                 uploads, pkg>>

\* handleExportSVG: does nothing without an image; the button is disabled then.
handleExportSVG ==
  /\ image # NoImage
  /\ out' = [kind |-> "svg", file |-> "grid-overlay.svg", rects |-> SvgRects,
             dots |-> SvgDots, viewBox |-> dimensions]
  /\ UNCHANGED <<editor, loads, uploads, pkg>>

\* What the handlers created in one render close over.
Captured ==
  [rows |-> rows, cols |-> cols, dimensions |-> dimensions, opacityRange |-> opacityRange,
   opacitySteps |-> opacitySteps, durationRange |-> durationRange,
   maskedIndices |-> maskedIndices, isAnimated |-> isAnimated, seed |-> seed,
   gridCells |-> gridCells, style |-> style]

\* Array.from(set): the elements of the set, each once, as an array.
ArrayFrom(S) ==
  CHOOSE q \in [1..Cardinality(S) -> S] : \A x \in S : \E k \in DOMAIN q : q[k] = x

\* ComponentCode with the generated cells written into the source as data.
ComponentCodeWithCells(s) ==
  [rows |-> s.rows, cols |-> s.cols,
   showDots |-> s.style.showDots, dotsColor |-> s.style.dotsColor,
   dotsSize |-> s.style.dotsSize, gridColor |-> s.style.gridColor,
   showStroke |-> s.style.showStroke, strokeColor |-> s.style.strokeColor,
   strokeWidth |-> s.style.strokeWidth,
   strokeOpacityMultiplier |-> s.style.strokeOpacityMultiplier,
   isAnimated |-> s.isAnimated,
   maskedArrayStr |-> ArrayFrom(s.maskedIndices),
   opacityRange |-> s.opacityRange,
   quantizeSteps |-> IF s.opacitySteps > 1 THEN s.opacitySteps ELSE 0,
   durationRange |-> s.durationRange,
   aspectRatio |-> s.dimensions, blendMode |-> s.style.blendMode,
   cells |-> s.gridCells]

\* generateComponentCode on the values s: the template's text is fixed, so the
\* source is given by the values the template interpolates.  quantizeCode is
\* empty unless opacitySteps > 1; the field is drawn with Math.random() when
\* the component mounts.
ComponentCode(s) ==
  [rows |-> s.rows, cols |-> s.cols,
   showDots |-> s.style.showDots, dotsColor |-> s.style.dotsColor,
   dotsSize |-> s.style.dotsSize, gridColor |-> s.style.gridColor,
   showStroke |-> s.style.showStroke, strokeColor |-> s.style.strokeColor,
   strokeWidth |-> s.style.strokeWidth,
   strokeOpacityMultiplier |-> s.style.strokeOpacityMultiplier,
   isAnimated |-> s.isAnimated,
   maskedArrayStr |-> ArrayFrom(s.maskedIndices),
   opacityRange |-> s.opacityRange,
   quantizeSteps |-> IF s.opacitySteps > 1 THEN s.opacitySteps ELSE 0,
   durationRange |-> s.durationRange,
   aspectRatio |-> s.dimensions, blendMode |-> s.style.blendMode]

generateComponentCode == ComponentCode(Captured)

\* GridOverlayChildren with a masked cell rendering nothing.
GridOverlayChildrenWithoutPlaceholders(code) ==
  LET masked == {code.maskedArrayStr[k] : k \in DOMAIN code.maskedArrayStr}
      shown == {i \in 0..(code.rows * code.cols - 1) : i \notin masked}
      nth(k) == CHOOSE i \in shown : Cardinality({j \in shown : j < i}) = k - 1
  IN  [k \in 1..Cardinality(shown) |->
         [key |-> nth(k), tag |-> "motion.div", animated |-> code.isAnimated]]

\* The grid the exported component renders: it builds rows * cols cells with
\* id i, and maps each to <div key={cell.id} /> if new Set(maskedArray) has the
\* id and to a <motion.div key={cell.id} .../> otherwise.
GridOverlayChildren(code) ==
  LET masked == {code.maskedArrayStr[k] : k \in DOMAIN code.maskedArrayStr}
  IN  [k \in 1..(code.rows * code.cols) |->
         IF (k - 1) \in masked
           THEN [key |-> k - 1, tag |-> "div"]
           ELSE [key |-> k - 1, tag |-> "motion.div", animated |-> code.isAnimated]]

\* handleCopyCode; its button is disabled without an image.
\* handleCopyCode behind a button that is not disabled without an image: the
\* handler itself does not test image.
handleCopyCodeAlwaysEnabled ==
  /\ out' = [kind |-> "clipboard", text |-> generateComponentCode,
             alert |-> "React component code copied to clipboard!"]
  /\ UNCHANGED <<editor, loads, uploads, pkg>>

handleCopyCode ==
  /\ image # NoImage
  /\ out' = [kind |-> "clipboard", text |-> generateComponentCode,
             alert |-> "React component code copied to clipboard!"]
  /\ UNCHANGED <<editor, loads, uploads, pkg>>

\* img.width, img.height of the image behind a URL, as its onload reports them.
DimsOfImage(url) == IF url = DefaultImage THEN DefaultDims ELSE FileDims(url.n)

\* promptContent: the instructions with ${componentCode} pasted into their
\* third section.
PromptContent(componentCode) ==
  [title |-> "# Task: Implement Grid Overlay Component", code |-> componentCode]

\* Started with the prompt not added.
StartedWithoutPrompt ==
  [pc |-> "fetch", entries |-> {"GridOverlay.tsx"}, warned |-> FALSE, fetched |-> "pending",
   code |-> generateComponentCode, prompt |-> PromptContent(generateComponentCode),
   image |-> image]

\* Started with the image fetched from where the default image is served.
StartedFetchingDefaultImage ==
  [pc |-> "fetch", entries |-> {"GridOverlay.tsx", "LLM_PROMPT.md"},
   warned |-> FALSE, fetched |-> "pending",
   code |-> generateComponentCode, prompt |-> PromptContent(generateComponentCode),
   image |-> DefaultImage]

\* handleDownloadPackage up to its first await: a new JSZip with the component
\* (componentCode = generateComponentCode()) and the prompt (the same
\* componentCode pasted in) added, and fetch(image) started on the image of
\* the render the handler belongs to.
Started ==
  [pc |-> "fetch", entries |-> {"GridOverlay.tsx", "LLM_PROMPT.md"},
   warned |-> FALSE, fetched |-> "pending",
   code |-> generateComponentCode, prompt |-> PromptContent(generateComponentCode),
   image |-> image]

\* handleDownloadPackage with one JSZip shared by all calls: a new call starts
\* the archive over.
handleDownloadPackageSharedZip ==
  /\ image # NoImage
  /\ BagCardinality(pkg) < MaxInFlight
  /\ pkg' = SetToBag({Started})
  /\ out' = NoOut
  /\ UNCHANGED <<editor, loads, uploads>>

handleDownloadPackage ==
  /\ image # NoImage
  /\ BagCardinality(pkg) < MaxInFlight
  /\ pkg' = pkg (+) SetToBag({Started})
  /\ out' = NoOut
  /\ UNCHANGED <<editor, loads, uploads>>

\* The call e goes on as f.
Continue(e, f) == pkg' = (pkg (-) SetToBag({e})) (+) SetToBag({f})

\* Caught with the alert left out.
CaughtSilently(e, why) ==
  /\ Continue(e, [e EXCEPT !.pc = "generate", !.fetched = why])
  /\ out' = NoOut

\* The catch block: console.error, alert; then zip.generateAsync is awaited.
Caught(e, why) ==
  /\ Continue(e, [e EXCEPT !.pc = "generate", !.warned = TRUE, !.fetched = why])
  /\ out' = [kind |-> "alert", text |-> "Warning: Could not add image to zip."]

\* await fetch(image) settles: resolved with an ok status, resolved with an
\* HTTP error status (fetch does not reject on one), or rejected.
FetchSettled(e, outcome) ==
  /\ BagIn(e, pkg)
  /\ e.pc = "fetch"
  /\ IF outcome = "rejected"
       THEN Caught(e, "rejected")
       ELSE /\ Continue(e, [e EXCEPT !.pc = "blob", !.fetched = outcome])
            /\ out' = NoOut
  /\ UNCHANGED <<editor, loads, uploads>>

\* await response.blob() settles; zip.file("background.png", blob) follows.
BlobSettled(e, read) ==
  /\ BagIn(e, pkg)
  /\ e.pc = "blob"
  /\ IF read
       THEN /\ Continue(e, [e EXCEPT !.pc = "generate",
                                     !.entries = @ \cup {"background.png"}])
            /\ out' = NoOut
       ELSE Caught(e, "unreadable")
  /\ UNCHANGED <<editor, loads, uploads>>

\* await zip.generateAsync settles; the archive is downloaded.
GenerateDone(e) ==
  /\ BagIn(e, pkg)
  /\ e.pc = "generate"
  /\ out' = [kind |-> "download", file |-> "grid-overlay-package.zip",
             entries |-> e.entries, warned |-> e.warned, fetched |-> e.fetched,
             code |-> e.code, prompt |-> e.prompt, image |-> e.image]
  /\ pkg' = pkg (-) SetToBag({e})
  /\ UNCHANGED <<editor, loads, uploads>>

-----------------------------------------------------------------------------
(* The preview: gridCells.map((cell, i) => <motion.div ... />), rendered on  *)
(* every state change.  A cell's element is kept as the props the render     *)
(* hands to the animation library.                                           *)

\* cell.opacity * 0.5
Half(x) == IF x.nan THEN NaN ELSE Num(x.num, 2 * x.den)

\* A masked cell that pulses with the others.
PreviewCellPulsingWhenMasked(cell, i, mask, maskMode, animated, durRange) ==
  LET isMasked == i \in mask
      staticOpacity == IF isMasked
                         THEN (IF maskMode THEN Num(3, 10) ELSE Num(0, 1))
                         ELSE cell.opacity
  IN  [key        |-> <<cell.id, durRange[1], durRange[2], animated>>,
       animate    |-> IF animated
                        THEN <<cell.opacity, Half(cell.opacity), cell.opacity>>
                        ELSE <<staticOpacity>>,
       transition |-> IF animated
                        THEN [duration |-> cell.duration, repeat |-> "Infinity",
                              repeatType |-> "reverse", ease |-> "easeInOut",
                              delay |-> cell.delay]
                        ELSE [duration |-> Num(3, 10)]]

\* The element of cell i.  key is `${cell.id}-${durationRange[0]}-
\* ${durationRange[1]}-${isAnimated}`; animate.opacity is three keyframes
\* when the cell pulses and one target when it does not, 0.3 or 0 for a
\* masked cell; transition repeats for ever with the cell's own duration and
\* delay when it pulses and lasts 0.3 s when it does not.
PreviewCell(cell, i, mask, maskMode, animated, durRange) ==
  LET isMasked == i \in mask
      shouldAnimate == animated /\ ~isMasked
      staticOpacity == IF isMasked
                         THEN (IF maskMode THEN Num(3, 10) ELSE Num(0, 1))
                         ELSE cell.opacity
  IN  [key        |-> <<cell.id, durRange[1], durRange[2], animated>>,
       animate    |-> IF shouldAnimate
                        THEN <<cell.opacity, Half(cell.opacity), cell.opacity>>
                        ELSE <<staticOpacity>>,
       transition |-> IF shouldAnimate
                        THEN [duration |-> cell.duration, repeat |-> "Infinity",
                              repeatType |-> "reverse", ease |-> "easeInOut",
                              delay |-> cell.delay]
                        ELSE [duration |-> Num(3, 10)]]

\* The children of the grid in the current state: cell i is element i + 1.
Preview ==
  [k \in 1..Len(gridCells) |->
     PreviewCell(gridCells[k], k - 1, maskedIndices, isMaskingMode, isAnimated,
                 durationRange)]

\* What Math.random() returns to a render, to 1/RngScale.
RandomDraws == {0, RngScale \div 2}

\* The element of cell i as src/src/components/image-grid-tool.tsx renders it:
\* key is cell.id, and the transition of a pulsing cell takes
\* Math.random() * (durationRange[1] - durationRange[0]) + durationRange[0]
\* for its duration and Math.random() * 2 for its delay, drawn in the render
\* itself: r2 and r3 are what the two calls return.
PreviewCellDrawn(cell, i, mask, maskMode, animated, durRange, r2, r3) ==
  LET isMasked == i \in mask
      shouldAnimate == animated /\ ~isMasked
      staticOpacity == IF isMasked
                         THEN (IF maskMode THEN Num(3, 10) ELSE Num(0, 1))
                         ELSE cell.opacity
  IN  [key        |-> <<cell.id>>,
       animate    |-> IF shouldAnimate
                        THEN <<cell.opacity, Half(cell.opacity), cell.opacity>>
                        ELSE <<staticOpacity>>,
       transition |-> IF shouldAnimate
                        THEN [duration |-> CellDuration(r2, durRange), repeat |-> "Infinity",
                              repeatType |-> "reverse", ease |-> "easeInOut",
                              delay |-> CellDelay(r3)]
                        ELSE [duration |-> Num(3, 10)]]

\* An element that pulses: keyframes under a transition that repeats.
Animating(el) == Len(el.animate) > 1 /\ "repeat" \in DOMAIN el.transition

-----------------------------------------------------------------------------

\* Image loading.
ImageNext ==
  \/ DefaultImageLoaded
  \/ \E file \in BOOLEAN : handleImageUpload(file)
  \/ \E url \in loads : UploadLoaded(url)

\* The mask and the column count: with the image, what shapes the grid.
ShapeNext ==
  \/ \E i \in ClickCells(Len(gridCells)) : CellClick(i)
  \/ ClearMask
  \/ SetIsMaskingMode
  \/ \E c \in ColsSet : SetGridSize(c)

\* The sliders and switches that feed the field generator.
FieldNext ==
  \/ \E r \in OpacityRanges : SetOpacityRange(r)
  \/ \E n \in StepsSet : SetOpacitySteps(n)
  \/ SetIsAnimated
  \/ \E r \in DurationRanges : SetDurationRange(r)
  \/ Regenerate

\* The style controls.
StyleNext ==
  \/ SetShowDots
  \/ \E c \in GridColors : SetGridColor(c)
  \/ \E c \in DotsColors : SetDotsColor(c)
  \/ \E n \in Sizes : SetDotsSize(n)
  \/ SetShowStroke
  \/ \E c \in StrokeColors : SetStrokeColor(c)
  \/ \E n \in Sizes : SetStrokeWidth(n)
  \/ \E m \in Multipliers : SetStrokeOpacityMultiplier(m)
  \/ SetBlendMode

\* The exports that finish inside their own event.
ExportNext ==
  \/ handleExportSVG
  \/ handleCopyCode

\* The bundle export and its awaits.
PackageNext ==
  \/ handleDownloadPackage
  \/ \E e \in BagToSet(pkg), outcome \in {"ok", "httpError", "rejected"} : FetchSettled(e, outcome)
  \/ \E e \in BagToSet(pkg), read \in BOOLEAN : BlobSettled(e, read)
  \/ \E e \in BagToSet(pkg) : GenerateDone(e)

\* Every event of the program.
Next == ImageNext \/ ShapeNext \/ FieldNext \/ StyleNext \/ ExportNext \/ PackageNext
Spec == Init /\ [][Next]_vars

\* The editor without its exports, which write none of its variables.
EditorNext == ImageNext \/ ShapeNext \/ FieldNext
SpecEditor == Init /\ [][EditorNext]_vars

\* The vector and clipboard exports among the events that change the image,
\* the geometry, the mask and the quantisation.
ExportingNext == ImageNext \/ ShapeNext \/ (\E n \in StepsSet : SetOpacitySteps(n)) \/ ExportNext
SpecExport == Init /\ [][ExportingNext]_vars

\* Bundle exports in flight among the events that change the image and the
\* geometry.
BundlingNext == ImageNext \/ (\E c \in ColsSet : SetGridSize(c)) \/ PackageNext
SpecBundle == Init /\ [][BundlingNext]_vars

\* The style controls among the switches, the mask and Regenerate, on the
\* default image.
StylingNext ==
  \/ DefaultImageLoaded
  \/ StyleNext
  \/ \E i \in ClickCells(Len(gridCells)) : CellClick(i)
  \/ ClearMask
  \/ SetIsMaskingMode
  \/ SetIsAnimated
  \/ Regenerate
SpecStyle == Init /\ [][StylingNext]_vars

\* Everything that writes the mask set among everything that regenerates the
\* field or restyles it, at the initial column count.
MaskingNext ==
  \/ ImageNext
  \/ \E i \in ClickCells(Len(gridCells)) : CellClick(i)
  \/ ClearMask
  \/ SetIsMaskingMode
  \/ FieldNext
  \/ StyleNext
SpecMask == Init /\ [][MaskingNext]_vars

\* The three exports, on the default image with a mask.
AllExportsNext ==
  \/ DefaultImageLoaded
  \/ SetIsMaskingMode
  \/ \E i \in ClickCells(Len(gridCells)) : CellClick(i)
  \/ ExportNext
  \/ PackageNext
SpecAllExports == Init /\ [][AllExportsNext]_vars

\* The vector export and the copy of the component source among the events
\* that shape the grid, mask it, reseed it, quantise it and switch the dots.
OutputNext ==
  \/ DefaultImageLoaded
  \/ ShapeNext
  \/ SetIsAnimated
  \/ Regenerate
  \/ SetShowDots
  \/ \E n \in StepsSet : SetOpacitySteps(n)
  \/ ExportNext
SpecOutput == Init /\ [][OutputNext]_vars

\* The bundle export after the default image has loaded, with the density
\* slider moved while archives are in flight.
ArchiveNext ==
  \/ DefaultImageLoaded
  \/ \E c \in ColsSet : SetGridSize(c)
  \/ PackageNext
SpecArchive == Init /\ [][ArchiveNext]_vars

\* The bundle export among image loads, uploads and mask clicks.
SnapshotNext ==
  \/ ImageNext
  \/ SetIsMaskingMode
  \/ \E i \in ClickCells(Len(gridCells)) : CellClick(i)
  \/ PackageNext
SpecSnapshot == Init /\ [][SnapshotNext]_vars

\* The seed among the other settings: image loads, the mask, the animation
\* and its controls, two style switches and the exports.
SeedingNext ==
  \/ ImageNext
  \/ \E i \in ClickCells(Len(gridCells)) : CellClick(i)
  \/ SetIsMaskingMode
  \/ SetIsAnimated
  \/ \E r \in DurationRanges : SetDurationRange(r)
  \/ Regenerate
  \/ SetShowStroke
  \/ SetBlendMode
  \/ ExportNext
SpecSeed == Init /\ [][SeedingNext]_vars

-----------------------------------------------------------------------------
(* The field generator on its own: every configuration of the bounded input *)
(* sets, after the default image (of any of the sizes) has loaded.          *)

GenCols == {MinCols, MinCols + 1, MinCols + 2, InitCols}
GenDims == {[width |-> 800, height |-> 600], [width |-> 1200, height |-> 600],
            [width |-> 1100, height |-> 100], [width |-> 500, height |-> 500],
            [width |-> 300, height |-> 200]}
GenOpacity == {4, 10, 18}
GenDuration == {31, 100}

InitGen ==
  /\ image = DefaultImage
  /\ dimensions \in GenDims
  /\ gridSize \in GenCols
  /\ opacityRange \in {r \in GenOpacity \X GenOpacity : r[1] <= r[2]}
  /\ opacitySteps \in 0..MaxLevels
  /\ durationRange \in {r \in GenDuration \X GenDuration : r[1] <= r[2]}
  /\ maskedIndices = {}
  /\ isMaskingMode = FALSE
  /\ isAnimated \in BOOLEAN
  /\ seed \in 0..MaxSeed
  /\ gridCells = Generate(RowsOf(gridSize, dimensions), gridSize, opacityRange,
                          opacitySteps, durationRange, seed)
  /\ cellsRef = 0
  /\ style = InitStyle
  /\ loads = {}
  /\ uploads = 0
  /\ pkg = EmptyBag
  /\ out = NoOut

GenNext == SetIsAnimated \/ Regenerate
SpecGen == InitGen /\ [][GenNext]_vars

-----------------------------------------------------------------------------
(* The field generator on the largest grids: an uploaded image has loaded,   *)
(* and the density slider is moved between its minimum, its initial value   *)
(* and its maximum.                                                          *)

\* img.width, img.height of the uploaded image: the initial size, a square,
\* and an image a hundredth taller than wide.
DrawDims == {[width |-> 800, height |-> 600], [width |-> 1000, height |-> 1000],
             [width |-> 1000, height |-> 1010]}
\* The values the density slider is moved to.
DrawCols == {MinCols, InitCols, MaxCols}

InitDraws ==
  /\ image = ObjectURL(1)
  /\ dimensions \in DrawDims
  /\ gridSize = InitCols
  /\ opacityRange \in OpacityRanges
  /\ opacitySteps \in StepsSet
  /\ durationRange = <<31, 100>>
  /\ maskedIndices = {}
  /\ isMaskingMode = FALSE
  /\ isAnimated \in BOOLEAN
  /\ seed = 0
  /\ gridCells = Generate(RowsOf(gridSize, dimensions), gridSize, opacityRange,
                          opacitySteps, durationRange, seed)
  /\ cellsRef = 0
  /\ style = InitStyle
  /\ loads = {}
  /\ uploads = 1
  /\ pkg = EmptyBag
  /\ out = NoOut

DrawsNext ==
  \/ \E c \in DrawCols : SetGridSize(c)
  \/ SetIsAnimated
  \/ Regenerate
SpecDraws == InitDraws /\ [][DrawsNext]_vars

-----------------------------------------------------------------------------
(* The mask on its own: the default image has loaded, the Mask section is    *)
(* on, and the user has masked the first cell and any of two others.         *)

InitToggle ==
  /\ image = DefaultImage
  /\ dimensions = DefaultDims
  /\ gridSize = InitCols
  /\ opacityRange = <<4, 18>>
  /\ opacitySteps = InitSteps
  /\ durationRange = <<31, 100>>
  /\ maskedIndices \in {{0} \cup M : M \in SUBSET {1, InitCols - 1}}
  /\ isMaskingMode = TRUE
  /\ isAnimated = FALSE
  /\ seed = 0
  /\ gridCells = Generate(RowsOf(gridSize, dimensions), gridSize, opacityRange,
                          opacitySteps, durationRange, seed)
  /\ cellsRef = 0
  /\ style = InitStyle
  /\ loads = {}
  /\ uploads = 0
  /\ pkg = EmptyBag
  /\ out = NoOut

ToggleNext ==
  \/ \E i \in ClickCells(Len(gridCells)) : CellClick(i)
  \/ ClearMask
  \/ SetIsMaskingMode
  \/ SetIsAnimated
  \/ Regenerate
  \/ \E c \in ColsSet : SetGridSize(c)
SpecToggle == InitToggle /\ [][ToggleNext]_vars

-----------------------------------------------------------------------------
(* Uploads on their own: the default image has loaded and is shown, and the  *)
(* user has selected a first file, whose image is still loading.  That first *)
(* file is numbered 0; uploads counts the files selected after it.           *)

InitUploading ==
  /\ image = DefaultImage
  /\ dimensions = DefaultDims
  /\ gridSize = InitCols
  /\ opacityRange = <<4, 18>>
  /\ opacitySteps = InitSteps
  /\ durationRange = <<31, 100>>
  /\ maskedIndices = {}
  /\ isMaskingMode = FALSE
  /\ isAnimated = FALSE
  /\ seed = 0
  /\ gridCells = Generate(RowsOf(gridSize, dimensions), gridSize, opacityRange,
                          opacitySteps, durationRange, seed)
  /\ cellsRef = 0
  /\ style = InitStyle
  /\ loads = {ObjectURL(0)}
  /\ uploads = 0
  /\ pkg = EmptyBag
  /\ out = NoOut

UploadingNext ==
  \/ \E file \in BOOLEAN : handleImageUpload(file)
  \/ \E url \in loads : UploadLoaded(url)
  \/ \E i \in ClickCells(Len(gridCells)) : CellClick(i)
  \/ SetIsMaskingMode
  \/ SetIsAnimated
  \/ \E c \in ColsSet : SetGridSize(c)
SpecUploading == InitUploading /\ [][UploadingNext]_vars

-----------------------------------------------------------------------------
(* Images without a width or a height: the default image is shown and the    *)
(* user has selected three such files, whose images are still loading.       *)

InitDegenerate ==
  /\ image = DefaultImage
  /\ dimensions = DefaultDims
  /\ gridSize = InitCols
  /\ opacityRange = <<4, 18>>
  /\ opacitySteps = InitSteps
  /\ durationRange = <<31, 100>>
  /\ maskedIndices = {}
  /\ isMaskingMode = FALSE
  /\ isAnimated = FALSE
  /\ seed = 0
  /\ gridCells = Generate(RowsOf(gridSize, dimensions), gridSize, opacityRange,
                          opacitySteps, durationRange, seed)
  /\ cellsRef = 0
  /\ style = InitStyle
  /\ loads = {ObjectURL(-1), ObjectURL(-2), ObjectURL(-3)}
  /\ uploads = 0
  /\ pkg = EmptyBag
  /\ out = NoOut

DegenerateNext ==
  \/ \E file \in BOOLEAN : handleImageUpload(file)
  \/ \E url \in loads : UploadLoaded(url)
  \/ \E c \in ColsSet : SetGridSize(c)
  \/ SetIsMaskingMode
  \/ SetIsAnimated
SpecDegenerate == InitDegenerate /\ [][DegenerateNext]_vars

-----------------------------------------------------------------------------
(* Claims *)

\* C1: in every reachable editor state every index of the mask set lies in
\* [0, rows * cols) of the current grid.
C1_MaskWithinGrid ==
  \A i \in maskedIndices : i >= 0 /\ i < rows * cols

\* C2: a vector export emits no rectangle for a masked index, and emits
\* rows * cols - |M| rectangles, M being the mask set at export time.
C2_SvgOmitsMasked ==
  out.kind = "svg" =>
    /\ \A i \in DOMAIN out.rects : i \notin maskedIndices
    /\ Cardinality(DOMAIN out.rects) = rows * cols - Cardinality(maskedIndices)

\* C3: in the state in which an uploaded image of other dimensions takes
\* effect, the mask set is empty.
C3_UploadTakesEffectUnmasked ==
  [][(image' # image /\ image'.src = "blob" /\ dimensions' # dimensions)
       => maskedIndices' = {}]_vars

\* C4: the cells the editor holds are the generator's value at the current
\* rows, cols, opacity range, levels, duration range and seed, whatever events
\* led there: two runs with the same inputs hold the same cells.
C4_CellsDeterminedByInputs ==
  gridCells = Generate(rows, cols, opacityRange, opacitySteps, durationRange, seed)

\* The inputs moved away from their initial values by several events.
C4_Witness ==
  /\ seed = MaxSeed
  /\ opacitySteps = 0
  /\ gridSize = MinCols
  /\ image = DefaultImage
  /\ opacityRange # <<4, 18>>

\* C5: with L >= 2 levels every cell opacity is min + k * (max - min) / (L - 1)
\* for an integer k in 0..L-1, for every opacity range, min = max included.
C5_OpacityOnStep ==
  opacitySteps >= 2 =>
    \A c \in DOMAIN gridCells :
      LET o == gridCells[c].opacity
          L == opacitySteps
      IN  /\ ~o.nan
          /\ \E k \in 0..(L - 1) :
               o.num * OpacityUnit * (L - 1)
                 = o.den * (opacityRange[1] * (L - 1) + k * (opacityRange[2] - opacityRange[1]))

\* C6: every cell has a defined opacity in [min, max] of the opacity range, a
\* duration within the duration range and a delay in [0, 2).
C6_CellsInRange ==
  \A c \in DOMAIN gridCells :
    LET o == gridCells[c].opacity
        d == gridCells[c].duration
        w == gridCells[c].delay
    IN  /\ ~o.nan
        /\ opacityRange[1] * o.den <= OpacityUnit * o.num
        /\ OpacityUnit * o.num <= opacityRange[2] * o.den
        /\ durationRange[1] * d.den <= DurationUnit * d.num
        /\ DurationUnit * d.num <= durationRange[2] * d.den
        /\ 0 <= w.num
        /\ w.num < DelayMax * w.den

\* C7: rows = max(1, round(cols / aspectRatio)), a half rounding up: with
\* q = cols * height / width, rows is 1 when q < 3/2, and otherwise the integer
\* with rows - 1/2 <= q < rows + 1/2; the field has rows * cols cells.
C7_RowsIsRoundedQuotient ==
  LET q2 == 2 * cols * dimensions.height
      w  == dimensions.width
  IN  /\ rows >= 1
      /\ Len(gridCells) = rows * cols
      /\ IF q2 < 3 * w
           THEN rows = 1
           ELSE (2 * rows - 1) * w <= q2 /\ q2 < (2 * rows + 1) * w

\* A quotient that ends in a half, above 1: it is rounded up.
C7_Witness ==
  /\ rows >= 2
  /\ 2 * cols * dimensions.height = (2 * rows - 1) * dimensions.width
  /\ Len(gridCells) = rows * cols

C9_FetchedBundleHasThreeEntries ==
  /\ (out.kind = "download" /\ out.fetched \in {"ok", "httpError"}) =>
       /\ out.file = "grid-overlay-package.zip"
       /\ out.entries = {"GridOverlay.tsx", "LLM_PROMPT.md", "background.png"}
       /\ ~out.warned
  /\ out.kind = "download" => {"GridOverlay.tsx", "LLM_PROMPT.md"} \subseteq out.entries
  /\ \A e \in BagToSet(pkg) :
       /\ e.entries \subseteq {"GridOverlay.tsx", "LLM_PROMPT.md", "background.png"}
       /\ {"GridOverlay.tsx", "LLM_PROMPT.md"} \subseteq e.entries

\* An archive downloaded after the image was fetched and read.
C9_Witness ==
  out.kind = "download" /\ out.fetched = "ok"

\* What the user sets: the sliders, the switches, the mask, the files selected.
UserSettings ==
  <<gridSize, opacityRange, opacitySteps, durationRange, maskedIndices,
    isMaskingMode, isAnimated, seed, uploads>>

\* C10 as stated: while an export is in flight no further export starts and
\* no user action changes the configuration.
C10_ExportsExclusive ==
  [][BagCardinality(pkg) > 0 =>
       /\ BagCardinality(pkg') <= BagCardinality(pkg)
       /\ UserSettings' = UserSettings]_vars

\* C10 as amended: exports and configuration changes are accepted while bundle
\* exports are in flight, and they leave every call in flight as it is: a step
\* that starts an export, changes the editor or selects a file drops and
\* changes no call in flight.
C10_InFlightUndisturbed ==
  [][(\/ CopiesIn(Started, pkg') > CopiesIn(Started, pkg)
      \/ editor' # editor
      \/ uploads' # uploads)
       => pkg \sqsubseteq pkg']_vars

\* Two bundle exports in flight, one of them past its fetch, after a change of
\* the column count.
C10_Witness ==
  /\ BagCardinality(pkg) = 2
  /\ \E e \in BagToSet(pkg) : e.pc # "fetch"
  /\ gridSize # InitCols

\* C11: a click on a cell while masking mode is off changes no state variable
\* of the editor, the mask set included; a click changes the mask set only
\* while masking mode is on.
C11_ClickNeedsMaskingMode ==
  [][(\E i \in ClickCells(Len(gridCells)) : CellClick(i))
       => /\ ~isMaskingMode => editor' = editor
          /\ maskedIndices' # maskedIndices => isMaskingMode]_vars

\* Masking mode is off again after a cell was masked, and the cells can be
\* clicked: the click leaves this very state.
C11_Witness ==
  /\ ~isMaskingMode
  /\ maskedIndices # {}
  /\ ENABLED (\E i \in ClickCells(Len(gridCells)) : CellClick(i))

\* C12: a step that changes none of rows, cols, opacity range, seed, aspect
\* ratio, levels and duration range keeps the very array of cells it found;
\* so does every step that changes mask mode, the animation switch, the mask
\* set or a style setting.
C12_CellsReusedUnlessInputChanged ==
  [][/\ (/\ rows' = rows
          /\ cols' = cols
          /\ opacityRange' = opacityRange
          /\ seed' = seed
          /\ aspectRatio' = aspectRatio
          /\ opacitySteps' = opacitySteps
          /\ durationRange' = durationRange)
          => gridCells' = gridCells /\ cellsRef' = cellsRef
     /\ (\/ isMaskingMode' # isMaskingMode
         \/ isAnimated' # isAnimated
         \/ maskedIndices' # maskedIndices
         \/ style' # style)
          => gridCells' = gridCells /\ cellsRef' = cellsRef]_vars

\* Cells regenerated once and then kept through a mask toggle, both switches
\* and a restyling.
C12_Witness ==
  /\ image = DefaultImage
  /\ seed = MaxSeed
  /\ maskedIndices # {}
  /\ isMaskingMode
  /\ ~isAnimated
  /\ Cardinality(Restyled(style)) = MaxRestyled

\* C13: a step that changes the seed, the opacity range, the levels, the
\* duration range or a style setting leaves the mask set as it was; a step that
\* changes the mask set is a cell click, the Clear button or the selection of
\* an image file.
C13_MaskOutlivesRegeneration ==
  [][/\ (\/ seed' # seed
         \/ opacityRange' # opacityRange
         \/ opacitySteps' # opacitySteps
         \/ durationRange' # durationRange
         \/ style' # style)
          => maskedIndices' = maskedIndices
     /\ maskedIndices' # maskedIndices
          => \/ \E i \in ClickCells(Len(gridCells)) : CellClick(i)
             \/ ClearMask
             \/ handleImageUpload(TRUE)]_vars

\* A mask that is still there after Regenerate, a new opacity range, a new
\* level count, a new duration range and a restyling.
C13_Witness ==
  /\ maskedIndices # {}
  /\ seed = MaxSeed
  /\ opacityRange # <<4, 18>>
  /\ opacitySteps # InitSteps
  /\ durationRange # <<31, 100>>
  /\ style # InitStyle

\* C14: a step of an export (the vector export, the copy of the component
\* source, the bundle export's call and each of its resumptions) leaves cells,
\* configuration, style, mask set, seed, image and dimensions as they were.
C14_ExportsLeaveEditorAlone ==
  [][editor' = editor \/ ~(handleExportSVG \/ handleCopyCode \/ PackageNext)]_vars

\* A bundle downloaded from an editor with a mask.
C14_Witness ==
  /\ out.kind = "download"
  /\ maskedIndices # {}

\* C15: the component source copied from a state is the source every state
\* that differs from it in the seed alone (and so in the cells drawn from the
\* seed) would give, and it has no seed in it.
C15_SourceIgnoresSeed ==
  out.kind = "clipboard" =>
    /\ "seed" \notin DOMAIN out.text
    /\ \A sd \in 0..MaxSeed :
         ComponentCode([Captured EXCEPT
                          !.seed = sd,
                          !.gridCells = Generate(rows, cols, opacityRange, opacitySteps,
                                                 durationRange, sd)]) = out.text

\* The source copied after Regenerate was pressed as often as the model follows.
C15_Witness ==
  /\ out.kind = "clipboard"
  /\ seed = MaxSeed

\* C16: the copied component holds the mask set of the moment as a literal and
\* renders rows * cols children in index order, child i being an empty
\* placeholder if i is masked and a motion cell if it is not.
C16_ComponentKeepsGridPositions ==
  out.kind = "clipboard" =>
    LET literal == out.text.maskedArrayStr
        children == GridOverlayChildren(out.text)
    IN  /\ {literal[k] : k \in DOMAIN literal} = maskedIndices
        /\ Len(literal) = Cardinality(maskedIndices)
        /\ Len(children) = rows * cols
        /\ \A k \in DOMAIN children :
             /\ children[k].key = k - 1
             /\ children[k].tag = IF (k - 1) \in maskedIndices THEN "div" ELSE "motion.div"

\* The source copied while the first cell of a grid of several cells is masked.
C16_Witness ==
  /\ out.kind = "clipboard"
  /\ 0 \in maskedIndices
  /\ rows * cols > 1

\* C17: a vector export with the dots switched on has (rows + 1) * (cols + 1)
\* circles, one on each vertex (r, c) with 0 <= r <= rows and 0 <= c <= cols,
\* whatever is masked; with the dots switched off it has none.
C17_DotsOnEveryVertex ==
  out.kind = "svg" =>
    IF style.showDots
      THEN /\ Len(out.dots) = (rows + 1) * (cols + 1)
           /\ \A r \in 0..rows, c \in 0..cols :
                Cardinality({k \in DOMAIN out.dots : out.dots[k] = [r |-> r, c |-> c]}) = 1
      ELSE Len(out.dots) = 0

\* A vector export with dots from a grid with a masked cell.
C17_Witness ==
  /\ out.kind = "svg"
  /\ style.showDots
  /\ maskedIndices # {}
  /\ Len(out.dots) > 0

\* C18: in the field of the current grid no two draws have the same argument:
\* for a draw p of cell i and a draw q, the cell j whose draw q would have the
\* argument of (i, p) is no cell of the grid, unless it is i itself and q is p.
\* (The argument grows by one with the cell index, so j is found by a
\* subtraction.)
C18_DrawsShareNoInput ==
  \A i \in 0..(rows * cols - 1) :
    \A p, q \in {"opacity", "duration", "delay"} :
      LET j == DrawInput(i, p, seed) - DrawInput(0, q, seed)
      IN  (j >= 0 /\ j < rows * cols /\ DrawInput(j, q, seed) = DrawInput(i, p, seed))
            => (j = i /\ p = q)

\* C19: what a cell of the preview shows is decided by whether it is masked,
\* whether the mask is being edited and whether the animation is on: a masked
\* cell stands still at 0.3 while the mask is edited and at 0 while it is not;
\* an unmasked cell pulses when the animation is on and stands still at its
\* generated opacity when it is off.  The four cases exclude each other, and
\* a masked cell never pulses.
C19_FourRenderingStates ==
  \A k \in 1..Len(gridCells) :
    LET el == Preview[k]
        masked == (k - 1) \in maskedIndices
        dim == ~Animating(el) /\ el.animate = <<Num(3, 10)>>
        hidden == ~Animating(el) /\ el.animate = <<Num(0, 1)>>
        static == ~Animating(el) /\ el.animate = <<gridCells[k].opacity>>
    IN  /\ (masked /\ isMaskingMode) => dim
        /\ (masked /\ ~isMaskingMode) => hidden
        /\ (~masked /\ isAnimated) => Animating(el)
        /\ (~masked /\ ~isAnimated) => static
        /\ masked => ~Animating(el)

\* The animation is on, the mask is being edited, one cell of several is masked
\* and another is not.
C19_Witness ==
  /\ isAnimated
  /\ isMaskingMode
  /\ Len(gridCells) > 1
  /\ \E k \in 1..Len(gridCells) : (k - 1) \in maskedIndices
  /\ \E k \in 1..Len(gridCells) : (k - 1) \notin maskedIndices

\* C20: a click that toggles one cell of the mask leaves the element of every
\* other cell as it was: the same key, the same animate target (so the same
\* rendering state) and the same transition, duration and delay included.
\* This is asked of the preview of src/unnamed/part_000 and of the preview of
\* src/src/components/image-grid-tool.tsx, whatever Math.random() returns to
\* the render before the click and to the render after it.
C20_ToggleLeavesOtherCellsAlone ==
  [][\A i \in 0..(Len(gridCells) - 1) :
       (isMaskingMode /\ CellClick(i)) =>
         \A k \in (1..Len(gridCells)) \ {i + 1} :
           /\ Preview'[k] = Preview[k]
           /\ \A before, after \in RandomDraws \X RandomDraws :
                PreviewCellDrawn(gridCells'[k], k - 1, maskedIndices', isMaskingMode',
                                 isAnimated', durationRange', after[1], after[2])
                  = PreviewCellDrawn(gridCells[k], k - 1, maskedIndices, isMaskingMode,
                                     isAnimated, durationRange, before[1], before[2])]_vars

\* C21: with the editor's initial configuration (10 columns, 800 x 600, seed 0,
\* opacity range [0.2, 0.9], 3 levels) the grid has 8 rows, the field has 80
\* cells and every opacity is 0.2, 0.55 or 0.9 (4, 11 or 18 twentieths).
C21_InitialField ==
  (/\ gridSize = InitCols
   /\ dimensions = [width |-> 800, height |-> 600]
   /\ seed = 0
   /\ opacityRange = <<4, 18>>
   /\ opacitySteps = InitSteps)
    => /\ rows = 8
       /\ Len(gridCells) = 80
       /\ \A k \in 1..Len(gridCells) :
            /\ ~gridCells[k].opacity.nan
            /\ \E v \in {4, 11, 18} :
                 gridCells[k].opacity.num * OpacityUnit = v * gridCells[k].opacity.den

\* The initial configuration, come back to after the levels were changed, with
\* each of the three opacities on some cell of the field.
C21_Witness ==
  /\ gridSize = InitCols
  /\ dimensions = [width |-> 800, height |-> 600]
  /\ seed = 0
  /\ opacityRange = <<4, 18>>
  /\ opacitySteps = InitSteps
  /\ cellsRef = 0
  /\ isAnimated
  /\ \A v \in {4, 11, 18} :
       \E k \in 1..Len(gridCells) :
         gridCells[k].opacity.num * OpacityUnit = v * gridCells[k].opacity.den

\* C22: in a vector export the rectangle of cell i stands at column i mod cols
\* and row floor(i / cols), so i = row * cols + col; its x is col * 100 / cols,
\* its y is row * 100 / rows, its width 100 / cols and its height 100 / rows,
\* all in percent; two rectangles never stand at the same place, and each
\* lies within 0 to 100 percent both ways.
C22_RectsRowMajor ==
  out.kind = "svg" =>
    /\ \A i \in DOMAIN out.rects :
         LET rect == out.rects[i]
         IN  /\ rect.col = i % cols
             /\ rect.row = i \div cols
             /\ i = rect.row * cols + rect.col
             /\ rect.x.num * cols = rect.col * 100 * rect.x.den
             /\ rect.y.num * rows = rect.row * 100 * rect.y.den
             /\ rect.width.num * cols = 100 * rect.width.den
             /\ rect.height.num * rows = 100 * rect.height.den
             /\ rect.x.num >= 0
             /\ rect.y.num >= 0
             \* x + width <= 100 and y + height <= 100
             /\ rect.x.num * rect.width.den + rect.width.num * rect.x.den
                  <= 100 * rect.x.den * rect.width.den
             /\ rect.y.num * rect.height.den + rect.height.num * rect.y.den
                  <= 100 * rect.y.den * rect.height.den
    /\ \A i, j \in DOMAIN out.rects :
         i # j => <<out.rects[i].x, out.rects[i].y>> # <<out.rects[j].x, out.rects[j].y>>

\* A vector export of a grid of several rows and columns, not square, with a
\* masked cell.
C22_Witness ==
  /\ out.kind = "svg"
  /\ rows > 1
  /\ cols > rows
  /\ maskedIndices # {}
  /\ Cardinality(DOMAIN out.rects) > cols

\* C23: toggleMask(i) flips whether i is in the mask and leaves every other
\* index as it was; doing it twice gives back the mask it started from, and
\* the toggles of two different indices give the same mask in either order.
\* Stated of the current mask and every cell of the grid.
C23_ToggleFlipsOneIndex ==
  \A i \in 0..(Len(gridCells) - 1) :
    LET once == toggleMask(maskedIndices, i)
    IN  /\ (i \in once) # (i \in maskedIndices)
        /\ \A k \in (once \cup maskedIndices \cup 0..(Len(gridCells) - 1)) \ {i} :
             (k \in once) = (k \in maskedIndices)
        /\ toggleMask(once, i) = maskedIndices
        /\ \A j \in (0..(Len(gridCells) - 1)) \ {i} :
             toggleMask(once, j) = toggleMask(toggleMask(maskedIndices, j), i)

\* A click has taken the first cell out of a mask that holds another cell.
C23_Witness ==
  /\ isMaskingMode
  /\ 0 \notin maskedIndices
  /\ 1 \in maskedIndices
  /\ 1 < Len(gridCells)

\* C24: the seed starts at 0; a step that changes it is a press of Regenerate,
\* which adds exactly 1 to it and leaves the mask, the image, the dimensions,
\* the column count, the ranges, the levels and the style as they were; no
\* step lowers the seed.
C24_SeedMovesOnlyByRegenerate ==
  /\ seed = 0
  /\ [][/\ seed' >= seed
        /\ seed' # seed =>
             /\ Regenerate
             /\ seed' = seed + 1
             /\ UNCHANGED <<maskedIndices, image, dimensions, gridSize, opacityRange,
                            opacitySteps, durationRange, style>>]_vars

\* Regenerate was pressed with an uploaded image shown, a cell masked and the
\* style changed.
C24_Witness ==
  /\ seed = MaxSeed
  /\ image.src = "blob"
  /\ maskedIndices # {}
  /\ style # InitStyle

\* C25: a draw depends on seed + index only, so a press of Regenerate shifts
\* the field by one cell: under the new seed the opacity, duration and delay
\* draws of cell i are those of cell i + 1 under the old seed, and so are the
\* opacity, duration and delay of every cell that has a next cell.
C25_RegenerateShiftsField ==
  [][Regenerate =>
       /\ \A i \in 0..(Len(gridCells) - 1) : \A p \in {"opacity", "duration", "delay"} :
            rng(DrawInput(i, p, seed')) = rng(DrawInput(i + 1, p, seed))
       /\ \A k \in 1..(Len(gridCells) - 1) :
            /\ gridCells'[k].opacity = gridCells[k + 1].opacity
            /\ gridCells'[k].duration = gridCells[k + 1].duration
            /\ gridCells'[k].delay = gridCells[k + 1].delay]_vars

\* Regenerate has been pressed on a field of several cells whose opacities
\* are not all the same.
C25_Witness ==
  /\ seed = MaxSeed
  /\ cellsRef = 1
  /\ Len(gridCells) > 1
  /\ \E k \in 2..Len(gridCells) : gridCells[k].opacity # gridCells[1].opacity

\* C26: once no image load is pending, the image shown and the dimensions are
\* those of the file selected last, in whatever order the loads of the
\* selected files completed: a load of an earlier file that completes late does
\* not take the place of a later file.
C26_LastSelectionShown ==
  loads = {} => /\ image = ObjectURL(uploads)
                /\ dimensions = FileDims(uploads)

\* C27: once an image the user uploaded is shown, the default image does not
\* take its place: no step leads from an uploaded image being shown to the
\* default image being shown.
C27_DefaultNeverReplacesUpload ==
  [][image.src = "blob" => image' # DefaultImage]_vars

\* What an archive, in flight or downloaded, was made from.
C28_Snapshot(e) == <<e.code, e.prompt, e.image>>

\* C28: a bundle export is made from the state it was triggered in.  The
\* component source, the source pasted into the instructions and the image
\* fetched of every archive in flight are those of an archive already in
\* flight or, on the step that triggers an export, those of the current state;
\* they agree with each other (the instructions hold the archive's own source,
\* and the source's aspect ratio is that of the image fetched); and a
\* downloaded archive has what its export held, whatever loads, uploads and
\* mask clicks happened while it was pending.
C28_BundleIsSnapshot ==
  [][/\ \A e \in BagToSet(pkg') :
          /\ \/ \E f \in BagToSet(pkg) : C28_Snapshot(f) = C28_Snapshot(e)
             \/ /\ handleDownloadPackage
                /\ C28_Snapshot(e) = <<generateComponentCode,
                                       PromptContent(generateComponentCode), image>>
          /\ e.prompt.code = e.code
          /\ e.code.aspectRatio = DimsOfImage(e.image)
     /\ handleDownloadPackage =>
          \E e \in BagToSet(pkg') :
            C28_Snapshot(e) = <<generateComponentCode,
                               PromptContent(generateComponentCode), image>>
     /\ (out'.kind = "download" /\ out' # out) =>
          /\ \E f \in BagToSet(pkg) : C28_Snapshot(f) = C28_Snapshot(out')
          /\ out'.prompt.code = out'.code
          /\ out'.code.aspectRatio = DimsOfImage(out'.image)]_vars

\* An archive downloaded after the image shown and the mask had changed while
\* it was pending.
C28_Witness ==
  /\ out.kind = "download"
  /\ out.image # image
  /\ out.code.maskedArrayStr # generateComponentCode.maskedArrayStr

\* C29: whatever width and height the image loads report, 0 included, the row
\* count is a finite integer of at least 1 and the generator returns, with
\* exactly rows * cols cells.
C29_RowsFiniteAndFieldComplete ==
  /\ rows # Infinity
  /\ rows >= 1
  /\ gridCells # NeverReturns
  /\ Len(gridCells) = rows * cols

\* C30: while no image is loaded nothing is exported: no vector file is
\* downloaded, nothing is written to the clipboard and no archive is being
\* made or downloaded.
C30_NoExportWithoutImage ==
  image = NoImage => /\ out = NoOut
                     /\ pkg = EmptyBag

\* No image is loaded yet, the user has switched the Mask section on, and none
\* of the three exports can be taken.
C30_Witness ==
  /\ image = NoImage
  /\ isMaskingMode
  /\ ~ENABLED (handleExportSVG \/ handleCopyCode \/ handleDownloadPackage)

====
